---- MODULE Spec2Model ----
(***************************************************************************)
(* A model of the wasminspect Store / Linker (crates/vm/src/store.rs):     *)
(* host-module registration, name registration and the instantiation       *)
(* protocol of load_parity_module with its cleanup path.                   *)
(*                                                                         *)
(* Local indices and global handles are 0-based, as in the Rust code;      *)
(* At(s, i) reads the i-th (0-based) element of a sequence.                *)
(***************************************************************************)
EXTENDS Integers, Sequences, FiniteSets, TLC

VARIABLES
    funcs,                  \* Store.funcs   : LinkableCollection<FunctionInstance>
    tables,                 \* Store.tables  : LinkableCollection<TableInstance>
    mems,                   \* Store.mems    : LinkableCollection<MemoryInstance>
    globals,                \* Store.globals : LinkableCollection<GlobalInstance>
    modules,                \* Store.modules : Vec<ModuleInstance>
    module_index_by_name,   \* Store.module_index_by_name : HashMap<String, ModuleIndex>
    pc,                     \* position inside the running Store operation
    cur,                    \* the parity module being instantiated (argument)
    cur_name,               \* the name argument of the running load_parity_module
    module_index,           \* the pre-assigned module index of the running call
    result,                 \* result of load_parity_module_internal
    started,                \* whether invoke_func ran a function body in this call
    ret,                    \* value returned to the caller by the last call
    pre,                    \* the Store as it was when the running call began
    ncalls,                 \* number of Store operations called so far
    code,                   \* Executor.store: the functions the Executor runs
    exec_globals,           \* Executor.store: the values of the module's globals
    stack,                  \* Executor.stack, bottom first
    exec_pc,                \* Executor.pc : ProgramCounter
    last_ret_frame,         \* Executor.last_ret_frame : Option<CallFrame>
    step_result,            \* what the last execute_step returned
    host_args,              \* the argument vectors the host callable received
    calls,                  \* the Calls of Defined functions still running
    debug_build,            \* whether the build has debug assertions and overflow checks
    peeked                  \* what the last peek_result returned

vars == <<funcs, tables, mems, globals, modules, module_index_by_name,
          pc, cur, cur_name, module_index, result, started, ret, pre, ncalls,
          code, exec_globals, stack, exec_pc, last_ret_frame, step_result,
          host_args, calls, debug_build, peeked>>

store_vars == <<funcs, tables, mems, globals, modules, module_index_by_name>>

exec_vars == <<code, exec_globals, stack, exec_pc, last_ret_frame, step_result,
               host_args, calls, debug_build, peeked>>

-----------------------------------------------------------------------------
(* Bounds of the model.                                                    *)

\* number of Store operations (load_host_module, register_name,
\* load_parity_module) in one behaviour
MaxCalls == 3
\* longest import section of a generated module
MaxImports == 2
\* most element (data) segments of a generated module
MaxSegs == 2

-----------------------------------------------------------------------------
(* Values and small helpers.                                               *)

\* the absent value of an optional index, handle or limit
None == 0 - 1

\* the absent value of an optional name
NoName == ""

At(s, i) == s[i + 1]

Ok == [ok |-> TRUE]

Err(e) == [ok |-> FALSE, err |-> e]

\* the variant name of an error value
ErrKind(r) == r.err[1]

\* bytes of one WebAssembly page
PageSize == 65536

-----------------------------------------------------------------------------
(* LinkableCollection<T>: globally owned items plus, per module index, the *)
(* list of global handles that the module's local indices stand for.       *)

NewCollection == [items |-> <<>>, locals |-> <<>>]

\* item_addrs_by_module.get(m), the empty list when the module has none
Locals(c, m) == IF m \in DOMAIN c.locals THEN c.locals[m] ELSE <<>>

\* push_global(item): append globally, to no module list
push_global(c, item) == [c EXCEPT !.items = Append(@, item)]

\* push(module, item): append globally and to the module's list
push(c, m, item) ==
    [items  |-> Append(c.items, item),
     locals |-> (m :> Append(Locals(c, m), Len(c.items))) @@ c.locals]

\* link(handle, module): append an existing handle to the module's list
link(c, h, m) ==
    [c EXCEPT !.locals = (m :> Append(Locals(c, m), h)) @@ c.locals]

\* resolve(LocalAddr(m, i)): the global handle, None when out of range
resolve(c, m, i) ==
    IF i < Len(Locals(c, m)) THEN At(Locals(c, m), i) ELSE None

get_global(c, h) == At(c.items, h)

is_empty(c, m) == Locals(c, m) = <<>>

\* remove_module(m): drop the module's local list; global items remain
remove_module(c, m) ==
    [c EXCEPT !.locals = [k \in (DOMAIN c.locals) \ {m} |-> c.locals[k]]]

-----------------------------------------------------------------------------
(* The Store as one record, for the operators that thread it through the   *)
(* steps of an operation.                                                  *)

TheStore ==
    [funcs |-> funcs, tables |-> tables, mems |-> mems, globals |-> globals,
     modules |-> modules, names |-> module_index_by_name]

SetStore(S) ==
    /\ funcs' = S.funcs
    /\ tables' = S.tables
    /\ mems' = S.mems
    /\ globals' = S.globals
    /\ modules' = S.modules
    /\ module_index_by_name' = S.names

\* Store::new()
NewStore ==
    [funcs |-> NewCollection, tables |-> NewCollection, mems |-> NewCollection,
     globals |-> NewCollection, modules |-> <<>>, names |-> <<>>]

\* a step's outcome: the Store it leaves and Ok / Err(e)
Out(S, r) == [S |-> S, res |-> r]

IsPanic(r) == ~r.ok /\ r.err[1] = "Panic"

-----------------------------------------------------------------------------
(* Runtime entities.                                                       *)

I32(n) == [t |-> "I32", v |-> n]

\* FunctionInstance::Host / FunctionInstance::Defined
HostFunctionInstance(ty, module_name, field) ==
    [kind |-> "Host", ty |-> ty, module_name |-> module_name, field_name |-> field]

DefinedFunctionInstance(name, ty, m, body) ==
    [kind |-> "Defined", name |-> name, ty |-> ty, module_index |-> m, body |-> body]

\* GlobalInstance { value, ty: { content_type, mutability } }
GlobalInstance(value, content_type, mutable) ==
    [value |-> value, content_type |-> content_type, mutable |-> mutable]

\* TableInstance::new(initial, max): `initial` empty slots (<<>>)
TableInstance(initial, max) ==
    [elements |-> [i \in 1..initial |-> <<>>], initial |-> initial, max |-> max]

\* MemoryInstance::new(initial, max): initial pages of zero bytes; `bytes`
\* holds the bytes written so far (every other byte is zero)
MemoryInstance(initial, max) ==
    [bytes |-> <<>>, initial |-> initial, max |-> max]

\* TableInstance::initialize(offset, data): all of data fits, or an error
\* and no write
table_initialize(t, offset, data) ==
    IF offset + Len(data) > Len(t.elements)
    THEN [ok |-> FALSE, table |-> t]
    ELSE [ok |-> TRUE,
          table |-> [t EXCEPT !.elements =
                        [i \in 1..Len(t.elements) |->
                            IF i > offset /\ i <= offset + Len(data)
                            THEN data[i - offset] ELSE t.elements[i]]]]

\* MemoryInstance::validate_region(offset, size)
validate_region(mem, offset, size) == offset + size <= mem.initial * PageSize

\* MemoryInstance::store(offset, data)
memory_store(mem, offset, data) ==
    IF ~validate_region(mem, offset, Len(data))
    THEN [ok |-> FALSE, mem |-> mem]
    ELSE [ok |-> TRUE,
          mem |-> [mem EXCEPT !.bytes =
                      [a \in (DOMAIN mem.bytes) \cup (offset .. offset + Len(data) - 1) |->
                          IF a >= offset /\ a < offset + Len(data)
                          THEN data[a - offset + 1] ELSE mem.bytes[a]]]]

-----------------------------------------------------------------------------
(* Module instances.                                                       *)

\* ModuleInstance::Host: field -> HostExport { kind, global handle }
HostModuleInstance(values) == [kind |-> "Host", exports |-> values]

\* ModuleInstance::Defined, built by new_from_parity_module: field ->
\* { kind, local index } of the module's export section
DefinedModuleInstance(m, idx) ==
    [kind |-> "Defined", module_index |-> idx, exports |-> m.exports,
     start |-> m.start]

UndefinedOf(kind) ==
    CASE kind = "Func"   -> "UndefinedFunction"
      [] kind = "Mem"    -> "UndefinedMemory"
      [] kind = "Table"  -> "UndefinedTable"
      [] kind = "Global" -> "UndefinedGlobal"

CollectionOf(S, kind) ==
    CASE kind = "Func"   -> S.funcs
      [] kind = "Mem"    -> S.mems
      [] kind = "Table"  -> S.tables
      [] kind = "Global" -> S.globals

\* Store::module_by_name followed by the lookup of the export in the
\* provider: the global handle of the exported item, an instantiation error,
\* or the panic of module_by_name for a name that was never registered
LookupExport(S, import, kind) ==
    IF import.module \notin DOMAIN S.names
    THEN Err(<<"Panic", "Module was not loaded", import.module>>)
    ELSE
      LET module == At(S.modules, S.names[import.module])
          undefined == Err(<<UndefinedOf(kind), import.module, import.field>>)
      IN  IF import.field \notin DOMAIN module.exports
          THEN undefined
          ELSE
            LET e == module.exports[import.field]
            IN  IF e.kind # kind
                THEN Err(<<IF module.kind = "Host" THEN "InvalidHostImport"
                                                   ELSE "InvalidImport",
                           import.field>>)
                ELSE IF module.kind = "Host"
                THEN [ok |-> TRUE, addr |-> e.addr]
                ELSE
                  LET h == resolve(CollectionOf(S, kind), module.module_index, e.index)
                  IN  IF h = None THEN undefined ELSE [ok |-> TRUE, addr |-> h]

\* the limit rule of memory and table imports: Ok iff the provider's initial
\* is at least the requested one and a requested maximum is matched by a
\* provider maximum that does not exceed it
LimitsCompatible(found, requested) ==
    /\ ~(found.initial < requested.initial)
    /\ CASE found.max # None /\ requested.max # None -> ~(found.max > requested.max)
         [] found.max = None /\ requested.max # None -> FALSE
         [] OTHER -> TRUE

load_import_function(S, idx, import, types) ==
    IF ~(import.type_index < Len(types))
    THEN Out(S, Err(<<"UnknownType", import.type_index>>))
    ELSE
      LET func_ty == At(types, import.type_index)
          found == LookupExport(S, import, "Func")
      IN  IF ~found.ok THEN Out(S, found)
          ELSE
            LET actual_func_ty == get_global(S.funcs, found.addr).ty
            IN  IF actual_func_ty # func_ty
                THEN Out(S, Err(<<"IncompatibleImportFuncType", import.field,
                                  func_ty, actual_func_ty>>))
                ELSE Out([S EXCEPT !.funcs = link(@, found.addr, idx)], Ok)

load_import_memory(S, idx, import) ==
    LET found == LookupExport(S, import, "Mem")
    IN  IF ~found.ok THEN Out(S, found)
        ELSE IF ~LimitsCompatible(get_global(S.mems, found.addr), import.limits)
        THEN Out(S, Err(<<"IncompatibleImportMemoryType">>))
        ELSE Out([S EXCEPT !.mems = link(@, found.addr, idx)], Ok)

load_import_table(S, idx, import) ==
    LET found == LookupExport(S, import, "Table")
    IN  IF ~found.ok THEN Out(S, found)
        ELSE IF ~LimitsCompatible(get_global(S.tables, found.addr), import.limits)
        THEN Out(S, Err(<<"IncompatibleImportTableType">>))
        ELSE Out([S EXCEPT !.tables = link(@, found.addr, idx)], Ok)

load_import_global(S, idx, import) ==
    LET found == LookupExport(S, import, "Global")
    IN  IF ~found.ok THEN Out(S, found)
        ELSE
          LET actual_global == get_global(S.globals, found.addr)
              actual_global_ty == actual_global.content_type
              expected_global_ty == import.content_type
          IN  IF actual_global.mutable # import.mutable
              THEN Out(S, Err(<<"IncompatibleImportGlobalMutability">>))
              ELSE IF actual_global_ty # expected_global_ty
              THEN Out(S, Err(<<"IncompatibleImportGlobalType",
                                actual_global_ty, expected_global_ty>>))
              ELSE Out([S EXCEPT !.globals = link(@, found.addr, idx)], Ok)

load_import(S, idx, import, types) ==
    CASE import.kind = "Func"   -> load_import_function(S, idx, import, types)
      [] import.kind = "Mem"    -> load_import_memory(S, idx, import)
      [] import.kind = "Table"  -> load_import_table(S, idx, import)
      [] import.kind = "Global" -> load_import_global(S, idx, import)

\* Store::load_imports: the imports in section order, stopping at the first
\* error (the links made before it stay)
RECURSIVE load_imports_from(_, _, _, _, _)
load_imports_from(S, idx, imports, types, k) ==
    IF k > Len(imports) THEN Out(S, Ok)
    ELSE
      LET o == load_import(S, idx, imports[k], types)
      IN  IF ~o.res.ok THEN o
          ELSE load_imports_from(o.S, idx, imports, types, k + 1)

load_imports(S, m, idx) == load_imports_from(S, idx, m.imports, m.types, 1)

\* Store::load_functions: push every own function; an unknown type index
\* stops the loop (the functions pushed before it stay)
RECURSIVE load_functions_from(_, _, _, _)
load_functions_from(S, m, idx, k) ==
    IF k > Len(m.funcs) THEN Out(S, Ok)
    ELSE
      LET func == m.funcs[k]
      IN  IF ~(func.type_ref < Len(m.types))
          THEN Out(S, Err(<<"UnknownType", func.type_ref>>))
          ELSE
            LET defined == DefinedFunctionInstance(Len(S.funcs.items),
                               At(m.types, func.type_ref), idx, func.body)
            IN  load_functions_from([S EXCEPT !.funcs = push(@, idx, defined)],
                                    m, idx, k + 1)

load_functions(S, m, idx) == load_functions_from(S, m, idx, 1)

\* eval_const_expr on the init expressions the generated modules use
eval_const_expr(init_expr) == I32(init_expr)

\* Store::load_globals
RECURSIVE load_globals_from(_, _, _, _)
load_globals_from(S, m, idx, k) ==
    IF k > Len(m.globals) THEN S
    ELSE
      LET entry == m.globals[k]
          instance == GlobalInstance(eval_const_expr(entry.init), entry.content_type,
                                     entry.mutable)
      IN  load_globals_from([S EXCEPT !.globals = push(@, idx, instance)], m, idx, k + 1)

load_globals(S, m, idx) == load_globals_from(S, m, idx, 1)

\* get_element_segments / get_data_segments: the segments of one index, in
\* section order
SegmentsOf(segs, index) == SelectSeq(segs, LAMBDA seg : seg.index = index)

RECURSIVE push_tables(_, _, _, _)
push_tables(S, m, idx, k) ==
    IF k > Len(m.tables) THEN S
    ELSE push_tables([S EXCEPT !.tables =
                         push(@, idx, TableInstance(m.tables[k].initial, m.tables[k].max))],
                     m, idx, k + 1)

\* the element segments of the module's tables, applied one after the other
\* in local table order; the first that does not fit returns the error
RECURSIVE init_tables(_, _, _, _, _)
init_tables(S, m, idx, index, k) ==
    IF ~(index < Len(Locals(S.tables, idx))) THEN Out(S, Ok)
    ELSE
      LET segs == SegmentsOf(m.elems, index)
      IN  IF k > Len(segs) THEN init_tables(S, m, idx, index + 1, 1)
          ELSE
            LET seg == segs[k]
                table_addr == At(Locals(S.tables, idx), index)
                data == [i \in 1..Len(seg.members) |-> <<idx, seg.members[i]>>]
                r == table_initialize(get_global(S.tables, table_addr), seg.offset, data)
            IN  IF ~r.ok
                THEN Out(S, Err(<<"InvalidElementSegments", "OutOfBounds">>))
                ELSE init_tables([S EXCEPT !.tables.items[table_addr + 1] = r.table],
                                 m, idx, index, k + 1)

\* Store::load_tables
load_tables(S, m, idx) ==
    IF m.tables = <<>> /\ is_empty(S.tables, idx) THEN Out(S, Ok)
    ELSE init_tables(push_tables(S, m, idx, 1), m, idx, 0, 1)

RECURSIVE push_mems(_, _, _, _)
push_mems(S, m, idx, k) ==
    IF k > Len(m.mems) THEN S
    ELSE push_mems([S EXCEPT !.mems =
                       push(@, idx, MemoryInstance(m.mems[k].initial, m.mems[k].max))],
                   m, idx, k + 1)

\* first loop of load_mems: validate every data segment of every memory of
\* the module, collecting <<memory handle, offset, value>>
RECURSIVE validate_data(_, _, _, _, _, _)
validate_data(S, m, idx, index, k, acc) ==
    IF ~(index < Len(Locals(S.mems, idx))) THEN [ok |-> TRUE, writes |-> acc]
    ELSE
      LET segs == SegmentsOf(m.data, index)
      IN  IF k > Len(segs) THEN validate_data(S, m, idx, index + 1, 1, acc)
          ELSE
            LET seg == segs[k]
                mem_addr == At(Locals(S.mems, idx), index)
            IN  IF ~validate_region(get_global(S.mems, mem_addr), seg.offset,
                                    Len(seg.value))
                THEN [ok |-> FALSE, writes |-> acc]
                ELSE validate_data(S, m, idx, index, k + 1,
                                   Append(acc, <<mem_addr, seg.offset, seg.value>>))

\* second loop of load_mems: apply the collected writes
RECURSIVE apply_data(_, _, _)
apply_data(S, writes, k) ==
    IF k > Len(writes) THEN Out(S, Ok)
    ELSE
      LET w == writes[k]
          r == memory_store(get_global(S.mems, w[1]), w[2], w[3])
      IN  IF ~r.ok THEN Out(S, Err(<<"InvalidDataSegments", "OutOfBounds">>))
          ELSE apply_data([S EXCEPT !.mems.items[w[1] + 1] = r.mem], writes, k + 1)

\* load_mems going on after a data segment that failed validation
load_mems_ignoring_invalid(S, m, idx) ==
    IF m.mems = <<>> /\ is_empty(S.mems, idx) THEN Out(S, Ok)
    ELSE
      LET pushed == push_mems(S, m, idx, 1)
          v == validate_data(pushed, m, idx, 0, 1, <<>>)
      IN  IF ~v.ok THEN Out(pushed, Ok)
          ELSE apply_data(pushed, v.writes, 1)

\* Store::load_mems
load_mems(S, m, idx) ==
    IF m.mems = <<>> /\ is_empty(S.mems, idx) THEN Out(S, Ok)
    ELSE
      LET pushed == push_mems(S, m, idx, 1)
          v == validate_data(pushed, m, idx, 0, 1, <<>>)
      IN  IF ~v.ok THEN Out(pushed, Err(<<"InvalidDataSegments", "OutOfBounds">>))
          ELSE apply_data(pushed, v.writes, 1)

\* the end of load_parity_module_internal: push the Defined instance and
\* bind the name, if one was given
append_instance(S, name, m, idx) ==
    [S EXCEPT !.modules = Append(@, DefinedModuleInstance(m, idx)),
              !.names = IF name # NoName THEN (name :> idx) @@ @ ELSE @]

\* the cleanup arm popping the last module instead of removing the one at
\* module_index when there is one
cleanup_popping(S, name, idx) ==
    [funcs   |-> remove_module(S.funcs, idx),
     tables  |-> remove_module(S.tables, idx),
     mems    |-> remove_module(S.mems, idx),
     globals |-> remove_module(S.globals, idx),
     modules |-> SubSeq(S.modules, 1, Len(S.modules) - 1),
     names   |-> IF name # NoName
                 THEN [n \in (DOMAIN S.names) \ {name} |-> S.names[n]]
                 ELSE S.names]

\* the cleanup arm of load_parity_module
cleanup(S, name, idx) ==
    [funcs   |-> remove_module(S.funcs, idx),
     tables  |-> remove_module(S.tables, idx),
     mems    |-> remove_module(S.mems, idx),
     globals |-> remove_module(S.globals, idx),
     modules |-> IF idx < Len(S.modules)
                 THEN SubSeq(S.modules, 1, idx) \o SubSeq(S.modules, idx + 2, Len(S.modules))
                 ELSE S.modules,
     names   |-> IF name # NoName
                 THEN [n \in (DOMAIN S.names) \ {name} |-> S.names[n]]
                 ELSE S.names]

-----------------------------------------------------------------------------
(* invoke_func(func_addr, [], store) for the start function.  A function    *)
(* body is one of three small programs:                                     *)
(*   "End"        end                                                       *)
(*   "SetGlobal"  i32.const 1; global.set 0; end                            *)
(*   "Trap"       an instruction the executor answers with an error         *)
(* The outcome is the Store it leaves, Ok or the trap, and whether a body   *)
(* was entered.                                                             *)

run_body(S, func) ==
    CASE func.body = "End"  -> Out(S, Ok)
      [] func.body = "Trap" -> Out(S, Err(<<"Trap", "UnsupportedInstruction">>))
      [] func.body = "SetGlobal" ->
            LET h == resolve(S.globals, func.module_index, 0)
            IN  IF h = None
                THEN Out(S, Err(<<"Panic", "global address does not resolve">>))
                ELSE Out([S EXCEPT !.globals.items[h + 1].value = I32(1)], Ok)

invoke_func(S, idx, index) ==
    LET h == resolve(S.funcs, idx, index)
    IN  IF h = None
        THEN [S |-> S, res |-> Err(<<"Trap", "UndefinedFunc", index>>), ran |-> FALSE]
        ELSE
          LET func == get_global(S.funcs, h)
          IN  IF func.kind = "Host"
              THEN [S |-> S, res |-> Ok, ran |-> TRUE]
              ELSE [S |-> run_body(S, func).S, res |-> run_body(S, func).res,
                    ran |-> TRUE]

-----------------------------------------------------------------------------
(* The inputs: host modules and parsed Wasm modules.                       *)

Names == {"env"}

\* the type section of every generated module: () -> () and (i32) -> ()
Types == <<"v_v", "i_v">>

Limits(initial, max) == [initial |-> initial, max |-> max]

\* limits of the table and the memory a host module provides
ProviderLimits == {Limits(1, None), Limits(2, 3)}

\* limits an import asks for
RequestedLimits == {Limits(1, None), Limits(2, 4), Limits(1, 1)}

\* a host module: a function f : () -> (), a mutable i32 global g, a table t
\* and a memory m (one export of each kind)
HostModule(l) ==
    [f |-> [kind |-> "Func", ty |-> "v_v"],
     g |-> [kind |-> "Global", instance |-> GlobalInstance(I32(0), "I32", TRUE)],
     t |-> [kind |-> "Table", instance |-> TableInstance(l.initial, l.max)],
     m |-> [kind |-> "Mem", instance |-> MemoryInstance(l.initial, l.max)]]

HostModules == {HostModule(l) : l \in ProviderLimits}

FuncImport(ti) ==
    [module |-> "env", field |-> "f", kind |-> "Func", type_index |-> ti]

MemImport(l) == [module |-> "env", field |-> "m", kind |-> "Mem", limits |-> l]

TableImport(l) == [module |-> "env", field |-> "t", kind |-> "Table", limits |-> l]

GlobalImport(mutable, ty) ==
    [module |-> "env", field |-> "g", kind |-> "Global", mutable |-> mutable,
     content_type |-> ty]

\* type index Len(Types) is the unknown one
ImportDescs ==
    {FuncImport(ti) : ti \in 0..Len(Types)}
    \cup {MemImport(l) : l \in RequestedLimits}
    \cup {TableImport(l) : l \in RequestedLimits}
    \cup {GlobalImport(TRUE, "I32"), GlobalImport(FALSE, "I32"), GlobalImport(TRUE, "I64")}

\* import sections of up to MaxImports entries, at most one of which is not
\* the plain function import
ImportSeqs ==
    UNION {{s \in [1..n -> ImportDescs] :
               Cardinality({i \in 1..n : s[i] # FuncImport(0)}) <= 1} : n \in 0..MaxImports}

OwnGlobal == [content_type |-> "I32", mutable |-> TRUE, init |-> 0]

OwnTable == Limits(2, None)

OwnMem == Limits(1, None)

\* an element segment that fits a table of one slot, and one that overruns a
\* table of two
ElemOk == [index |-> 0, offset |-> 0, members |-> <<0>>]

ElemBad == [index |-> 0, offset |-> 1, members |-> <<0, 0>>]

\* a data segment that fits, and 4 bytes at offset size - 2 of a one-page memory
DataOk == [index |-> 0, offset |-> 0, value |-> <<1, 2>>]

DataBad == [index |-> 0, offset |-> PageSize - 2, value |-> <<1, 2, 3, 4>>]

\* segment lists of up to MaxSegs entries: fitting ones, then possibly the bad one
SegSeqs(good, bad) ==
    UNION {{s \in [1..n -> {good, bad}] : \A i \in 1..(n - 1) : s[i] = good} :
              n \in 0..MaxSegs}

Func(body) == [type_ref |-> 0, body |-> body]

\* an own function whose type index is not in the type section
FuncUnknownType == [type_ref |-> Len(Types), body |-> "End"]

\* the export section of the generated modules: local index 0 of each kind
\* that has one, under the field names f, g, t, m
ExportsOf(imports, fs, globs, tbls, mms) ==
    LET has(kind, own) == own # <<>> \/ \E i \in 1..Len(imports) : imports[i].kind = kind
        fields == (IF has("Func", fs) THEN {"f"} ELSE {})
                  \cup (IF has("Global", globs) THEN {"g"} ELSE {})
                  \cup (IF has("Table", tbls) THEN {"t"} ELSE {})
                  \cup (IF has("Mem", mms) THEN {"m"} ELSE {})
        kindOf(fd) == CASE fd = "f" -> "Func" [] fd = "g" -> "Global"
                        [] fd = "t" -> "Table" [] fd = "m" -> "Mem"
    IN  [fd \in fields |-> [kind |-> kindOf(fd), index |-> 0]]

Module(imports, fs, globs, tbls, elems, mms, data, start) ==
    [types |-> Types, imports |-> imports, funcs |-> fs, globals |-> globs,
     tables |-> tbls, elems |-> elems, mems |-> mms, data |-> data, start |-> start,
     exports |-> ExportsOf(imports, fs, globs, tbls, mms)]

\* own functions with the start section that goes with them
FuncsAndStart ==
    {<<<<>>, None>>, <<<<Func("End")>>, 0>>, <<<<Func("Trap")>>, 0>>,
     <<<<Func("SetGlobal")>>, 0>>, <<<<FuncUnknownType>>, 0>>}

\* modules that only import
LinkModules ==
    {Module(i, <<>>, <<>>, <<>>, <<>>, <<>>, <<>>, st) :
        i \in ImportSeqs, st \in {None, 0}}

\* modules without imports: a global, possibly a function that is the start
\* function, possibly a table or a memory with one segment
OwnModules ==
    {Module(<<>>, fs[1], <<OwnGlobal>>, sec[1], sec[2], sec[3], sec[4], fs[2]) :
        fs \in FuncsAndStart,
        sec \in {<<<<>>, <<>>, <<>>, <<>>>>}
                \cup {<<<<OwnTable>>, <<e>>, <<>>, <<>>>> : e \in {ElemOk, ElemBad}}
                \cup {<<<<>>, <<>>, <<OwnMem>>, <<d>>>> : d \in {DataOk, DataBad}}}

\* modules that import the table, the memory or the global of "env" and
\* initialise or write them
SegmentModules ==
    {Module(<<TableImport(Limits(1, None))>>, fs[1], <<>>, <<>>, e, <<>>, <<>>, fs[2]) :
        e \in SegSeqs(ElemOk, ElemBad), fs \in {<<<<>>, None>>, <<<<Func("Trap")>>, 0>>}}
    \cup
    {Module(<<MemImport(Limits(1, None))>>, fs[1], <<>>, <<>>, <<>>, <<>>, d, fs[2]) :
        d \in SegSeqs(DataOk, DataBad), fs \in {<<<<>>, None>>, <<<<Func("Trap")>>, 0>>}}
    \cup
    {Module(<<GlobalImport(TRUE, "I32")>>, <<Func("SetGlobal")>>, <<>>, <<>>, <<>>,
            <<OwnMem>>, <<d>>, 0) : d \in {DataOk, DataBad}}

\* modules that import the function and the global of "env" and define a
\* function and a global of their own: local function 1 and local global 1;
\* the start function, if there is one, is the own function
IndexModules ==
    {Module(<<FuncImport(0), GlobalImport(TRUE, "I32")>>, <<Func("SetGlobal")>>,
            <<OwnGlobal>>, <<>>, <<>>, <<>>, <<>>, st) : st \in {None, 1}}

ParityModules == LinkModules \cup OwnModules \cup SegmentModules \cup IndexModules

\* the name argument of load_parity_module
ModuleNames(m) == IF m \in OwnModules THEN {NoName} \cup Names ELSE {NoName}

\* the values the per-call variables hold while no call is running
NoModule == Module(<<>>, <<>>, <<>>, <<>>, <<>>, <<>>, <<>>, None)

OkIndex(idx) == [ok |-> TRUE, index |-> idx]

NoResult == OkIndex(None)

-----------------------------------------------------------------------------
(* Store::load_host_module and Store::register_name.                       *)

HostFields == <<"f", "g", "t", "m">>

\* the loop over the host module's entries: push_global each into its
\* collection and record the handle under the field name
RECURSIVE load_host_values(_, _, _, _, _)
load_host_values(S, name, module, k, values) ==
    IF k > Len(HostFields) THEN [S |-> S, values |-> values]
    ELSE
      LET field == HostFields[k]
          entry == module[field]
          export(c) == (field :> [kind |-> entry.kind, addr |-> Len(c.items)]) @@ values
      IN  CASE entry.kind = "Func" ->
                 load_host_values(
                     [S EXCEPT !.funcs = push_global(@,
                         HostFunctionInstance(entry.ty, name, field))],
                     name, module, k + 1, export(S.funcs))
            [] entry.kind = "Global" ->
                 load_host_values([S EXCEPT !.globals = push_global(@, entry.instance)],
                                  name, module, k + 1, export(S.globals))
            [] entry.kind = "Table" ->
                 load_host_values([S EXCEPT !.tables = push_global(@, entry.instance)],
                                  name, module, k + 1, export(S.tables))
            [] entry.kind = "Mem" ->
                 load_host_values([S EXCEPT !.mems = push_global(@, entry.instance)],
                                  name, module, k + 1, export(S.mems))

\* load_host_module with the index taken after the instance was appended
load_host_module_index_after_push(S, name, module) ==
    LET idx == Len(S.modules) + 1
        o == load_host_values(S, name, module, 1, <<>>)
    IN  [o.S EXCEPT !.modules = Append(@, HostModuleInstance(o.values)),
                    !.names = (name :> idx) @@ @]

load_host_module(S, name, module) ==
    LET idx == Len(S.modules)
        o == load_host_values(S, name, module, 1, <<>>)
    IN  [o.S EXCEPT !.modules = Append(@, HostModuleInstance(o.values)),
                    !.names = (name :> idx) @@ @]

register_name(S, name, idx) == [S EXCEPT !.names = (name :> idx) @@ @]

call_vars == <<cur, cur_name, module_index, result, started, ret, pre>>

LoadHostModule ==
    /\ pc = "idle"
    /\ ncalls < MaxCalls
    /\ \E name \in Names, module \in HostModules :
          SetStore(load_host_module(TheStore, name, module))
    /\ ncalls' = ncalls + 1
    /\ UNCHANGED <<pc, call_vars>>
    /\ UNCHANGED exec_vars

RegisterName ==
    /\ pc = "idle"
    /\ ncalls < MaxCalls
    /\ \E name \in Names, idx \in 0..(Len(modules) - 1) :
          SetStore(register_name(TheStore, name, idx))
    /\ ncalls' = ncalls + 1
    /\ UNCHANGED <<pc, call_vars>>
    /\ UNCHANGED exec_vars

-----------------------------------------------------------------------------
(* Store::load_parity_module, one action per step.                         *)

\* where control goes when load_parity_module_internal has returned
AfterInternal == IF cur.start # None THEN "start" ELSE "finish"

\* a step of load_parity_module_internal that can fail: on Ok go on to
\* `next`, on an error leave the internal function with it, on a panic abort
InternalStep(o, next) ==
    /\ SetStore(o.S)
    /\ IF o.res.ok
       THEN pc' = next /\ UNCHANGED result
       ELSE IF IsPanic(o.res)
       THEN pc' = "aborted" /\ UNCHANGED result
       ELSE pc' = AfterInternal /\ result' = o.res
    /\ UNCHANGED <<cur, cur_name, module_index, started, ret, pre, ncalls>>
    /\ UNCHANGED exec_vars

\* entry of load_parity_module: module_index = modules.len()
Begin ==
    /\ pc = "idle"
    /\ ncalls < MaxCalls
    /\ \E m \in ParityModules : \E name \in ModuleNames(m) :
          /\ cur' = m
          /\ cur_name' = name
    /\ module_index' = Len(modules)
    /\ pre' = TheStore
    /\ result' = NoResult
    /\ started' = FALSE
    /\ ret' = NoResult
    /\ pc' = "imports"
    /\ ncalls' = ncalls + 1
    /\ UNCHANGED store_vars
    /\ UNCHANGED exec_vars

LoadImports ==
    /\ pc = "imports"
    /\ InternalStep(load_imports(TheStore, cur, module_index), "functions")

LoadFunctions ==
    /\ pc = "functions"
    /\ InternalStep(load_functions(TheStore, cur, module_index), "globals")

LoadGlobals ==
    /\ pc = "globals"
    /\ InternalStep(Out(load_globals(TheStore, cur, module_index), Ok), "tables")

LoadTables ==
    /\ pc = "tables"
    /\ InternalStep(load_tables(TheStore, cur, module_index), "mems")

LoadMems ==
    /\ pc = "mems"
    /\ InternalStep(load_mems(TheStore, cur, module_index), "append")

AppendInstance ==
    /\ pc = "append"
    /\ SetStore(append_instance(TheStore, cur_name, cur, module_index))
    /\ result' = OkIndex(module_index)
    /\ pc' = AfterInternal
    /\ UNCHANGED <<cur, cur_name, module_index, started, ret, pre, ncalls>>
    /\ UNCHANGED exec_vars

\* the start section: invoke_func(...).map_err(FailedEntryFunction)?
InvokeStart ==
    /\ pc = "start"
    /\ LET r == invoke_func(TheStore, module_index, cur.start)
       IN  /\ SetStore(r.S)
           /\ started' = r.ran
           /\ IF r.res.ok
              THEN pc' = "finish" /\ UNCHANGED ret
              ELSE IF IsPanic(r.res)
              THEN pc' = "aborted" /\ UNCHANGED ret
              ELSE pc' = "done" /\ ret' = Err(<<"FailedEntryFunction", r.res.err>>)
    /\ UNCHANGED <<cur, cur_name, module_index, result, pre, ncalls>>
    /\ UNCHANGED exec_vars

\* match result { Ok(ok) => Ok(ok), Err(err) => { cleanup; Err(err) } }
Finish ==
    /\ pc = "finish"
    /\ IF result.ok
       THEN UNCHANGED store_vars
       ELSE SetStore(cleanup(TheStore, cur_name, module_index))
    /\ ret' = result
    /\ pc' = "done"
    /\ UNCHANGED <<cur, cur_name, module_index, result, started, pre, ncalls>>
    /\ UNCHANGED exec_vars

\* the caller has taken the returned value
Return ==
    /\ pc = "done"
    /\ pc' = "idle"
    /\ cur' = NoModule
    /\ cur_name' = NoName
    /\ module_index' = None
    /\ result' = NoResult
    /\ started' = FALSE
    /\ ret' = NoResult
    /\ pre' = NewStore
    /\ UNCHANGED <<store_vars, ncalls>>
    /\ UNCHANGED exec_vars

Init ==
    /\ funcs = NewCollection
    /\ tables = NewCollection
    /\ mems = NewCollection
    /\ globals = NewCollection
    /\ modules = <<>>
    /\ module_index_by_name = <<>>
    /\ pc = "idle"
    /\ cur = NoModule
    /\ cur_name = NoName
    /\ module_index = None
    /\ result = NoResult
    /\ started = FALSE
    /\ ret = NoResult
    /\ pre = NewStore
    /\ ncalls = 0
    /\ code = <<>>
    /\ exec_globals = <<>>
    /\ stack = <<>>
    /\ exec_pc = [func_addr |-> None, inst_index |-> None]
    /\ last_ret_frame = [some |-> FALSE]
    /\ step_result = <<"none", "">>
    /\ host_args = <<>>
    /\ calls = <<>>
    /\ debug_build = FALSE
    /\ peeked = <<"none", <<>>>>

Next ==
    \/ LoadHostModule
    \/ RegisterName
    \/ Begin
    \/ LoadImports
    \/ LoadFunctions
    \/ LoadGlobals
    \/ LoadTables
    \/ LoadMems
    \/ AppendInstance
    \/ InvokeStart
    \/ Finish
    \/ Return

Spec == Init /\ [][Next]_vars

-----------------------------------------------------------------------------
(* The interpreter (wasminspect-core/src/interpreter/executor.rs).  Its     *)
(* Stack, CallFrame, Label and ProgramCounter (stack.rs) are described by   *)
(* the design document only; the operators below follow that description.   *)
(* The stack is a sequence, bottom first.                                   *)

I64(n) == [t |-> "I64", v |-> n]

value_type(v) == v.t

\* no declared result type
NoType == ""

\* Label::Block, Label::If, Label::Loop(inst_index), Label::Return
Label(t, inst_index) == [t |-> t, inst_index |-> inst_index]

BlockLabel == Label("Block", None)

IfLabel == Label("If", None)

ReturnLabel == Label("Return", None)

new_loop(inst_index) == Label("Loop", inst_index)

ProgramCounter(func_addr, inst_index) ==
    [func_addr |-> func_addr, inst_index |-> inst_index]

\* Option<ProgramCounter>::None, the ret_pc of the entry frame
NoPc == ProgramCounter(None, None)

CallFrame(func_addr, locals, ret_pc) ==
    [func_addr |-> func_addr, locals |-> locals, ret_pc |-> ret_pc]

\* StackValue::Value, StackValue::Label, StackValue::Activation
ValueEntry(v) == [k |-> "Value", e |-> v]

LabelEntry(l) == [k |-> "Label", e |-> l]

ActivationEntry(frame) == [k |-> "Activation", e |-> frame]

\* the position of the topmost entry of a kind, 0 when there is none
LastOf(s, kind) ==
    LET at == {i \in 1..Len(s) : s[i].k = kind}
    IN  IF at = {} THEN 0 ELSE CHOOSE i \in at : \A j \in at : j <= i

RemoveAt(s, i) == SubSeq(s, 1, i - 1) \o SubSeq(s, i + 1, Len(s))

push_value(s, v) == Append(s, ValueEntry(v))

has_value(s) == LastOf(s, "Value") # 0

\* popValue: the topmost value and the stack without it
pop_value(s) ==
    [value |-> s[LastOf(s, "Value")].e, stack |-> RemoveAt(s, LastOf(s, "Value"))]

peek_last_value(s) == s[LastOf(s, "Value")].e

push_label(s, l) == Append(s, LabelEntry(l))

has_label(s) == LastOf(s, "Label") # 0

\* popLabel: the topmost label and the stack without it
pop_label(s) ==
    [label |-> s[LastOf(s, "Label")].e, stack |-> RemoveAt(s, LastOf(s, "Label"))]

peek_last_label(s) == s[LastOf(s, "Label")].e

\* popLabels(n): pops n labels, discarding the values above and between them
RECURSIVE pop_labels(_, _)
pop_labels(s, n) ==
    IF n = 0 \/ ~has_label(s) THEN s
    ELSE pop_labels(SubSeq(s, 1, LastOf(s, "Label") - 1), n - 1)

set_frame(s, frame) == Append(s, ActivationEntry(frame))

has_frame(s) == LastOf(s, "Activation") # 0

\* currentFrame: the nearest activation from the top
current_frame(s) == s[LastOf(s, "Activation")].e

\* popFrame: removes everything down to and including the current activation
pop_frame(s) == SubSeq(s, 1, LastOf(s, "Activation") - 1)

\* currentFrameLabels: the labels above the current activation, bottom first
current_frame_labels(s) ==
    LET above == SubSeq(s, LastOf(s, "Activation") + 1, Len(s))
        labels == SelectSeq(above, LAMBDA x : x.k = "Label")
    IN  [i \in 1..Len(labels) |-> labels[i].e]

\* popWhile: the length of the contiguous run of top entries whose kind is
\* in `kinds`; the run itself, top first; and the stack without it
RunLength(s, kinds) ==
    LET stop == {i \in 1..Len(s) : s[i].k \notin kinds}
    IN  IF stop = {} THEN Len(s)
        ELSE Len(s) - (CHOOSE i \in stop : \A j \in stop : j <= i)

pop_while(s, kinds) ==
    LET n == RunLength(s, kinds)
    IN  [popped |-> [i \in 1..n |-> s[Len(s) + 1 - i]],
         stack |-> SubSeq(s, 1, Len(s) - n)]

local(s, i) == At(current_frame(s).locals, i)

set_local(s, i, v) ==
    [s EXCEPT ![LastOf(s, "Activation")].e.locals[i + 1] = v]

\* isOverTopLevel: the current activation is the entry frame and all its
\* labels have been popped
is_over_top_level(s) ==
    /\ has_frame(s)
    /\ current_frame(s).ret_pc = NoPc
    /\ current_frame_labels(s) = <<>>

-----------------------------------------------------------------------------
(* Instructions, functions and the state an instruction works on.          *)

F32(bits) == [t |-> "F32", v |-> bits]

F64(bits) == [t |-> "F64", v |-> bits]

Inst(op, arg) == [op |-> op, arg |-> arg]

\* FunctionInstance::Defined and FunctionInstance::Host: the parameter
\* types, the result type or NoType, the number of declared locals and the
\* instructions of a Defined function, the field name of a Host function
DefinedFunc(params, res, locals, insts) ==
    [kind |-> "Defined", params |-> params, result |-> res, locals |-> locals,
     insts |-> insts, field_name |-> NoName]

HostFunc(params, res, field_name) ==
    [kind |-> "Host", params |-> params, result |-> res, locals |-> 0,
     insts |-> <<>>, field_name |-> field_name]

\* the Executor's fields that a step reads and writes
TheExecutor ==
    [stack |-> stack, pc |-> exec_pc, globals |-> exec_globals,
     host_args |-> host_args]

\* ExecResult: Ok(Next), Ok(End), Err(e); a panic of the process
StepOk(x) == <<"Ok", x>>

StepErr(e) == <<"Err", e>>

Aborted == <<"abort", "">>

NotStepped == <<"none", "">>

Step(E, r) == [E |-> E, r |-> r]

\* Store::func
func(fs, addr) == At(fs, addr)

\* Store::global and Store::set_global of the executor's store: the global at
\* index `addr` of the module, and the globals with its value replaced
global(gs, addr) == At(gs, addr)

set_global(gs, addr, value) == [gs EXCEPT ![addr + 1].value = value]

\* i32::MAX and i32::MIN
MaxI32 == 2147483647

MinI32 == (0 - MaxI32) - 1

\* a + b leaves the i32 range
AddOverflows(a, b) ==
    \/ a > 0 /\ b > MaxI32 - a
    \/ a < 0 /\ b < MinI32 - a

\* a + b modulo 2^32 as an i32
WrappingAdd(a, b) ==
    IF a > 0 /\ b > MaxI32 - a THEN (a + MinI32) + (b + MinI32)
    ELSE IF a < 0 /\ b < MinI32 - a THEN (a - MinI32) + (b - MinI32)
    ELSE a + b

\* CallFrame::new and CallFrame::new_from_func: the arguments, then the
\* declared locals zeroed
new_frame(func_addr, local_len, args, ret_pc) ==
    CallFrame(func_addr, args \o [i \in 1..local_len |-> I32(0)], ret_pc)

Reverse(s) == [i \in 1..Len(s) |-> s[Len(s) + 1 - i]]

\* pops n values, the first popped first; ok is FALSE when they are not there
RECURSIVE pop_values(_, _, _)
pop_values(s, n, acc) ==
    IF n = 0 THEN [ok |-> TRUE, values |-> acc, stack |-> s]
    ELSE IF ~has_value(s) THEN [ok |-> FALSE, values |-> acc, stack |-> s]
    ELSE pop_values(pop_value(s).stack, n - 1, Append(acc, pop_value(s).value))

RECURSIVE push_values(_, _)
push_values(s, vs) ==
    IF vs = <<>> THEN s ELSE push_values(push_value(s, Head(vs)), Tail(vs))

\* the forward scan of If when the condition is zero, from 0-based `index`:
\* the index to go on from, or None when the scan runs off the function
RECURSIVE if_scan(_, _, _)
if_scan(insts, index, depth) ==
    IF ~(index < Len(insts)) THEN None
    ELSE
      LET op == At(insts, index).op
          d == CASE op = "End" -> depth - 1
                 [] op \in {"Block", "If", "Loop"} -> depth + 1
                 [] OTHER -> depth
      IN  IF op = "Else" /\ depth = 1 THEN index + 1
          ELSE IF d = 0 THEN index
          ELSE if_scan(insts, index + 1, d)

\* the forward scan of branch to the End of a Block or If
RECURSIVE branch_scan(_, _, _)
branch_scan(insts, index, depth) ==
    IF ~(index < Len(insts)) THEN None
    ELSE
      LET op == At(insts, index).op
          d == CASE op = "End" -> depth - 1
                 [] op \in {"Block", "If", "Loop"} -> depth + 1
                 [] OTHER -> depth
      IN  IF d = 0 THEN index ELSE branch_scan(insts, index + 1, d)

\* Executor::current_func_insts
current_func_insts(fs, E) == func(fs, current_frame(E.stack).func_addr).insts

\* branch with the target label popped as well: `depth + 1` labels are popped
\* before the label to branch to is looked at
branch_popping_target(fs, E, depth) ==
    LET popped == pop_labels(E.stack, depth + 1)
    IN  IF ~has_label(popped) \/ ~has_frame(popped) THEN Step(E, Aborted)
        ELSE
          LET l == peek_last_label(popped)
              P == [E EXCEPT !.stack = popped]
          IN  CASE l.t = "Loop" ->
                     Step([P EXCEPT !.pc.inst_index = l.inst_index], StepOk("Next"))
                [] l.t \in {"If", "Block"} ->
                     LET to == branch_scan(current_func_insts(fs, P),
                                           P.pc.inst_index, depth + 1)
                     IN  IF to = None THEN Step(P, Aborted)
                         ELSE Step([P EXCEPT !.pc.inst_index = to], StepOk("Next"))
                [] l.t = "Return" -> Step(P, Aborted)

\* Executor::branch
branch(fs, E, depth) ==
    LET popped == pop_labels(E.stack, depth)
    IN  IF ~has_label(popped) \/ ~has_frame(popped) THEN Step(E, Aborted)
        ELSE
          LET l == peek_last_label(popped)
              P == [E EXCEPT !.stack = popped]
          IN  CASE l.t = "Loop" ->
                     Step([P EXCEPT !.pc.inst_index = l.inst_index], StepOk("Next"))
                [] l.t \in {"If", "Block"} ->
                     LET to == branch_scan(current_func_insts(fs, P),
                                           P.pc.inst_index, depth + 1)
                     IN  IF to = None THEN Step(P, Aborted)
                         ELSE Step([P EXCEPT !.pc.inst_index = to], StepOk("Next"))
                [] l.t = "Return" -> Step(P, Aborted)

\* the values popped by two pop_as::<i32>() calls as the operands of a binary
\* instruction: values[rhs] is the right operand, values[lhs] the left one;
\* not ok when a value is missing or is no i32
i32_operands(r, rhs, lhs) ==
    IF r.ok /\ \A i \in 1..Len(r.values) : r.values[i].t = "I32"
    THEN [ok |-> TRUE, rhs |-> r.values[rhs].v, lhs |-> r.values[lhs].v,
          stack |-> r.stack]
    ELSE [ok |-> FALSE, rhs |-> 0, lhs |-> 0, stack |-> r.stack]

\* the operands of int_op with the left operand popped first
pop_operands_lhs_first(s) == i32_operands(pop_values(s, 2, <<>>), 2, 1)

\* `let rhs = self.pop_as(); let lhs = self.pop_as();` of Executor::int_op:
\* the right operand is popped first, the left one second
pop_operands(s) == i32_operands(pop_values(s, 2, <<>>), 1, 2)

\* Executor::int_op for i32 operands
int_op(E, f(_, _)) ==
    LET operands == pop_operands(E.stack)
    IN  IF ~operands.ok THEN Step(E, Aborted)
        ELSE Step([E EXCEPT !.stack = push_value(operands.stack,
                                                 f(operands.lhs, operands.rhs))],
                  StepOk("Next"))

\* Executor::invoke
invoke(fs, E, addr) ==
    IF ~(addr < Len(fs)) THEN Step(E, Aborted)
    ELSE
      LET f == func(fs, addr)
          r == pop_values(E.stack, Len(f.params), <<>>)
          args == r.values
      IN  IF ~r.ok THEN Step(E, Aborted)
          ELSE IF f.kind = "Defined"
          THEN LET frame == new_frame(addr, f.locals, Reverse(args), E.pc)
               IN  Step([E EXCEPT !.stack = push_label(set_frame(r.stack, frame),
                                                       ReturnLabel),
                                  !.pc = ProgramCounter(addr, 0)],
                        StepOk("Next"))
          ELSE IF f.field_name = "print_i32"
          THEN Step([E EXCEPT !.stack = r.stack,
                              !.host_args = Append(@, args)],
                    StepOk("Next"))
          ELSE Step([E EXCEPT !.stack = r.stack], Aborted)

\* the Return arm with the unwinding done first: the results are taken from
\* what is left once the activation has been popped
exec_return_unwinding_first(fs, E) ==
    IF ~has_frame(E.stack) THEN Step(E, Aborted)
    ELSE
      LET frame == current_frame(E.stack)
          arity == IF func(fs, frame.func_addr).result # NoType THEN 1 ELSE 0
          unwound == pop_while(E.stack, {"Value", "Label"}).stack
          r == pop_values(pop_frame(unwound), arity, <<>>)
      IN  IF ~r.ok THEN Step(E, Aborted)
          ELSE
            LET s == push_values(r.stack, r.values)
            IN  Step([E EXCEPT !.stack = s,
                               !.pc = IF frame.ret_pc # NoPc THEN frame.ret_pc ELSE @],
                     StepOk("Next"))

\* the Return arm of execute_inst
exec_return(fs, E) ==
    IF ~has_frame(E.stack) THEN Step(E, Aborted)
    ELSE
      LET frame == current_frame(E.stack)
          arity == IF func(fs, frame.func_addr).result # NoType THEN 1 ELSE 0
          r == pop_values(E.stack, arity, <<>>)
      IN  IF ~r.ok THEN Step(E, Aborted)
          ELSE
            LET unwound == pop_while(r.stack, {"Value", "Label"}).stack
                s == push_values(pop_frame(unwound), r.values)
            IN  Step([E EXCEPT !.stack = s,
                               !.pc = IF frame.ret_pc # NoPc THEN frame.ret_pc ELSE @],
                     StepOk("Next"))

\* the End arm of execute_inst
exec_end(fs, E) ==
    IF ~has_frame(E.stack) THEN Step(E, Aborted)
    ELSE IF current_frame_labels(E.stack) = <<>>
    THEN \* the end of a function is reached without a jump
      LET frame == current_frame(E.stack)
          arity == IF func(fs, frame.func_addr).result # NoType THEN 1 ELSE 0
          r == pop_values(E.stack, arity, <<>>)
      IN  IF ~r.ok THEN Step(E, Aborted)
          ELSE
            LET s == push_values(pop_frame(r.stack), r.values)
            IN  IF frame.ret_pc # NoPc
                THEN Step([E EXCEPT !.stack = s, !.pc = frame.ret_pc], StepOk("Next"))
                ELSE Step([E EXCEPT !.stack = s], StepOk("End"))
    ELSE \* the end of a block is reached without a jump
      LET results == pop_while(E.stack, {"Value"})
          l == pop_label(results.stack)
          s == push_values(l.stack,
                           [i \in 1..Len(results.popped) |-> results.popped[i].e])
      IN  Step([E EXCEPT !.stack = s,
                         !.pc.inst_index = IF l.label.t = "Loop"
                                           THEN l.label.inst_index ELSE @],
               StepOk("Next"))

\* the If arm of execute_inst
exec_if(fs, E) ==
    LET labelled == push_label(E.stack, IfLabel)
    IN  IF ~has_value(labelled) \/ pop_value(labelled).value.t # "I32"
        THEN Step([E EXCEPT !.stack = labelled], Aborted)
        ELSE
          LET c == pop_value(labelled)
              P == [E EXCEPT !.stack = c.stack]
          IN  IF c.value.v # 0 THEN Step(P, StepOk("Next"))
              ELSE IF ~has_frame(P.stack) THEN Step(P, Aborted)
              ELSE
                LET to == if_scan(current_func_insts(fs, P), P.pc.inst_index, 1)
                IN  IF to = None THEN Step(P, Aborted)
                    ELSE Step([P EXCEPT !.pc.inst_index = to], StepOk("Next"))

\* one value popped and handed to `then`; a missing value is a panic
WithValue(E, then(_, _)) ==
    IF ~has_value(E.stack) THEN Step(E, Aborted)
    ELSE then([E EXCEPT !.stack = pop_value(E.stack).stack], pop_value(E.stack).value)

Pushed(E, v) == Step([E EXCEPT !.stack = push_value(@, v)], StepOk("Next"))

\* Executor::execute_inst; the PC is advanced first
execute_inst(fs, E0, inst, debug) ==
    LET E == [E0 EXCEPT !.pc.inst_index = @ + 1]
        op == inst.op
        res ==
          CASE op = "Unreachable" -> Step(E, Aborted)
            [] op = "GetGlobal" -> Pushed(E, global(E.globals, inst.arg).value)
            [] op = "SetGlobal" ->
                 WithValue(E, LAMBDA P, v :
                     Step([P EXCEPT !.globals = set_global(@, inst.arg, v)], StepOk("Next")))
            [] op = "SetLocal" ->
                 WithValue(E, LAMBDA P, v :
                     Step([P EXCEPT !.stack = set_local(@, inst.arg, v)], StepOk("Next")))
            [] op = "GetLocal" -> Pushed(E, local(E.stack, inst.arg))
            [] op = "I32Const" -> Pushed(E, I32(inst.arg))
            [] op = "I32Add" ->
                 LET sum == int_op(E, LAMBDA a, b : I32(WrappingAdd(a, b)))
                     top == pop_values(E.stack, 2, <<>>)
                 IN  IF debug /\ sum.r = StepOk("Next")
                        /\ AddOverflows(top.values[2].v, top.values[1].v)
                     THEN Step(E, Aborted)
                     ELSE sum
            [] op = "I32LtS" -> int_op(E, LAMBDA a, b : I32(IF a < b THEN 1 ELSE 0))
            [] op = "I64Const" -> Pushed(E, I64(inst.arg))
            [] op = "F32Const" -> Pushed(E, F32(inst.arg))
            [] op = "F64Const" -> Pushed(E, F64(inst.arg))
            [] op = "Block" -> Step([E EXCEPT !.stack = push_label(@, BlockLabel)],
                                    StepOk("Next"))
            [] op = "Loop" ->
                 Step([E EXCEPT !.stack = push_label(@, new_loop(E.pc.inst_index))],
                      StepOk("Next"))
            [] op = "If" -> exec_if(fs, E)
            [] op = "Else" -> Step(branch(fs, E, 0).E,
                                   IF branch(fs, E, 0).r = Aborted THEN Aborted
                                   ELSE StepOk("Next"))
            [] op = "BrIf" ->
                 WithValue(E, LAMBDA P, v :
                     IF v # I32(0) THEN branch(fs, P, inst.arg)
                     ELSE Step(P, StepOk("Next")))
            [] op = "Br" -> branch(fs, E, inst.arg)
            [] op = "Call" -> invoke(fs, E, inst.arg)
            [] op = "Return" -> exec_return(fs, E)
            [] op = "End" -> exec_end(fs, E)
            [] op = "Nop" -> Step(E, StepOk("Next"))
            [] OTHER -> IF debug THEN Step(E, Aborted)
                        ELSE Step(E, StepErr("not supported yet"))
    IN  IF res.r = Aborted THEN res
        ELSE IF is_over_top_level(res.E.stack) THEN Step(res.E, StepOk("End"))
        ELSE res

\* Executor::execute_step
execute_step(fs, E, debug) ==
    IF ~(E.pc.func_addr < Len(fs)) \/ func(fs, E.pc.func_addr).kind # "Defined"
    THEN Step(E, Aborted)
    ELSE IF ~(E.pc.inst_index < Len(func(fs, E.pc.func_addr).insts))
    THEN Step(E, Aborted)
    ELSE execute_inst(fs, E, At(func(fs, E.pc.func_addr).insts, E.pc.inst_index), debug)

\* ReturnValResult of Executor::peek_result
PeekOk(values) == <<"Ok", values>>

PeekErr(e) == <<"Err", e>>

NotPeeked == <<"none", <<>>>>

PeekAborted == <<"abort", <<>>>>

\* Executor::peek_result
peek_result(fs, s, last) ==
    IF ~last.some THEN PeekErr(<<"NoCallFrame">>)
    ELSE
      LET return_ty == func(fs, last.frame.func_addr).result
      IN  IF ~has_value(s) THEN PeekAborted
          ELSE IF return_ty # NoType
          THEN IF value_type(peek_last_value(s)) = return_ty
               THEN PeekOk(<<peek_last_value(s)>>)
               ELSE PeekErr(<<"TypeMismatchReturnValue", peek_last_value(s), return_ty>>)
          ELSE PeekOk(<<>>)

-----------------------------------------------------------------------------
(* The programs the Executor is run on: functions, globals, entry function. *)

\* the bound of the counting loops and of the recursion
MaxCount == 3

Program(fs, gs, entry) == [funcs |-> fs, globals |-> gs, entry |-> entry]

ExecGlobal(value, mutable) == [value |-> value, mutable |-> mutable]

Op(op) == Inst(op, None)

Operands == {1, 2}

\* (func (result i32) i32.const a i32.const b i32.add)
AddProgram(a, b) ==
    Program(<<DefinedFunc(<<>>, "I32", 0,
                <<Inst("I32Const", a), Inst("I32Const", b), Op("I32Add"), Op("End")>>)>>,
            <<>>, 0)

\* (func (result i32) (local i32) i32.const 0 local.set 0 block loop
\*   local.get 0 i32.const 1 i32.add local.set 0
\*   local.get 0 i32.const n i32.lt_s br_if 0 end end local.get 0)
CountProgram(n) ==
    Program(<<DefinedFunc(<<>>, "I32", 1,
                <<Inst("I32Const", 0), Inst("SetLocal", 0), Op("Block"), Op("Loop"),
                  Inst("GetLocal", 0), Inst("I32Const", 1), Op("I32Add"),
                  Inst("SetLocal", 0), Inst("GetLocal", 0), Inst("I32Const", n),
                  Op("I32LtS"), Inst("BrIf", 0), Op("End"), Op("End"),
                  Inst("GetLocal", 0), Op("End")>>)>>,
            <<>>, 0)

\* the same count with the loop left by br_if 1 and repeated by br 0:
\*   block loop <increment> local.get 0 i32.const n i32.lt_s
\*   i32.const 1 i32.lt_s br_if 1 br 0 end end local.get 0
LoopBrProgram(n) ==
    Program(<<DefinedFunc(<<>>, "I32", 1,
                <<Op("Block"), Op("Loop"),
                  Inst("GetLocal", 0), Inst("I32Const", 1), Op("I32Add"),
                  Inst("SetLocal", 0), Inst("GetLocal", 0), Inst("I32Const", n),
                  Op("I32LtS"), Inst("I32Const", 1), Op("I32LtS"), Inst("BrIf", 1),
                  Inst("Br", 0), Op("End"), Op("End"),
                  Inst("GetLocal", 0), Op("End")>>)>>,
            <<>>, 0)

\* bodies that leave a mark in a local: the then-body in local 0, the
\* else-body in local 1, a nested construct in local 2
Mark(i) == <<Inst("I32Const", 1), Inst("SetLocal", i)>>

IfShapes == {"else", "no-else", "nested", "nested-no-else", "nested-loop"}

ThenBody(shape) ==
    CASE shape \in {"else", "no-else"} -> Mark(0)
      [] shape \in {"nested", "nested-no-else"} ->
           <<Op("Block")>> \o Mark(0) \o <<Op("End"), Inst("I32Const", 0), Op("If"),
             Op("Nop"), Op("Else")>> \o Mark(2) \o <<Op("End")>>
      [] shape = "nested-loop" -> <<Op("Loop")>> \o Mark(0) \o <<Op("End")>>

ElseBody(shape) ==
    CASE shape \in {"else", "nested-loop"} -> Mark(1)
      [] shape = "nested" ->
           Mark(1) \o <<Inst("I32Const", 1), Op("If")>> \o Mark(2)
             \o <<Op("Else"), Op("Nop"), Op("End")>>
      [] OTHER -> <<>>

HasElse(shape) == shape \in {"else", "nested", "nested-loop"}

\* i32.const c  if <then> [else <else>] end
IfInsts(c, shape) ==
    <<Inst("I32Const", c), Op("If")>> \o ThenBody(shape)
      \o (IF HasElse(shape) THEN <<Op("Else")>> \o ElseBody(shape) ELSE <<>>)
      \o <<Op("End")>>

IfProgram(c, shape) ==
    Program(<<DefinedFunc(<<>>, NoType, 3, IfInsts(c, shape) \o <<Op("End")>>)>>,
            <<>>, 0)

\* how a callee ends: by the End of the function or by Return
Endings == {"End", "Return"}

Ending(how) == IF how = "Return" THEN <<Op("Return"), Op("End")>> ELSE <<Op("End")>>

\* entry: i32.const 5 i32.const a i32.const b call 1 i32.add
\* callee (param i32 i32) (result i32): local.get 0 local.get 1 i32.lt_s
CallProgram(a, b, how) ==
    Program(<<DefinedFunc(<<>>, "I32", 0,
                <<Inst("I32Const", 5), Inst("I32Const", a), Inst("I32Const", b),
                  Inst("Call", 1), Op("I32Add"), Op("End")>>),
              DefinedFunc(<<"I32", "I32">>, "I32", 0,
                <<Inst("GetLocal", 0), Inst("GetLocal", 1), Op("I32LtS")>>
                  \o Ending(how))>>,
            <<>>, 0)

\* entry: i32.const n call 1
\* f (param i32) (result i32): local.get 0 if local.get 0 local.get 0
\*   i32.const -1 i32.add call 1 i32.add return end i32.const 0
RecProgram(n, how) ==
    Program(<<DefinedFunc(<<>>, "I32", 0,
                <<Inst("I32Const", n), Inst("Call", 1), Op("End")>>),
              DefinedFunc(<<"I32">>, "I32", 0,
                <<Inst("GetLocal", 0), Op("If"), Inst("GetLocal", 0),
                  Inst("GetLocal", 0), Inst("I32Const", 0 - 1), Op("I32Add"),
                  Inst("Call", 1), Op("I32Add"), Op("Return"), Op("End"),
                  Inst("I32Const", 0)>> \o Ending(how))>>,
            <<>>, 0)

HostFields1 == {"print_i32", "log"}

\* the host function at index 0 with n i32 parameters; the start function
\* pushes 42 (and 7) and calls it
HostProgram(field, n) ==
    Program(<<HostFunc([i \in 1..n |-> "I32"], NoType, field),
              DefinedFunc(<<>>, NoType, 0,
                (IF n = 2 THEN <<Inst("I32Const", 42), Inst("I32Const", 7)>>
                 ELSE <<Inst("I32Const", 42)>>)
                  \o <<Inst("Call", 0), Op("End")>>)>>,
            <<>>, 1)

\* global 0 is mutable, global 1 is not: i32.const 9 global.set g global.get g
GlobalProgram(g) ==
    Program(<<DefinedFunc(<<>>, "I32", 0,
                <<Inst("I32Const", 9), Inst("SetGlobal", g), Inst("GetGlobal", g),
                  Op("End")>>)>>,
            <<ExecGlobal(I32(0), TRUE), ExecGlobal(I32(0), FALSE)>>, 0)

\* entry functions by declared result and by what they leave on the stack
ResultProgram(res, insts) ==
    Program(<<DefinedFunc(<<>>, res, 0, insts \o <<Op("End")>>)>>, <<>>, 0)

ResultBodies ==
    {<<>>, <<Op("Nop")>>, <<Inst("I32Const", 3)>>, <<Inst("I64Const", 1)>>,
     <<Inst("I32Const", 3), Op("Return")>>, <<Op("Unreachable")>>, <<Op("Drop")>>}

\* programs that leave a Block or an If by a branch of depth d:
\*   <block | i32.const 1 if> [block] [i32.const 1] i32.const 7 br d
\*   [i32.const 99 end] <skipped> end
\* with a leftover value below the result when `leftover`, and with nested
\* Block, Loop and If/Else constructs between the branch and the target's End
BrTargets == {"Block", "If"}

OpenTarget(target) ==
    IF target = "If" THEN <<Inst("I32Const", 1), Op("If")>> ELSE <<Op("Block")>>

Skipped ==
    <<Inst("I32Const", 99), Op("Block"), Op("Nop"), Op("End"), Op("Loop"), Op("Nop"),
      Op("End"), Inst("I32Const", 0), Op("If"), Op("Nop"), Op("Else"), Op("Nop"),
      Op("End")>>

BrInsts(d, target, leftover) ==
    OpenTarget(target)
      \o (IF d = 1 THEN <<Op("Block")>> ELSE <<>>)
      \o (IF leftover THEN <<Inst("I32Const", 1)>> ELSE <<>>)
      \o <<Inst("I32Const", 7), Inst("Br", d)>>
      \o (IF d = 1 THEN <<Inst("I32Const", 99), Op("End")>> ELSE <<>>)
      \o Skipped \o <<Op("End"), Op("End")>>

BrProgram(d, target, leftover) ==
    Program(<<DefinedFunc(<<>>, "I32", 0, BrInsts(d, target, leftover))>>, <<>>, 0)

\* a branch whose target is the Return label of the frame:
\*   [block] i32.const 7 br d [end]   with d = 1 inside the block, else 0
BrReturnInsts(d) ==
    (IF d = 1 THEN <<Op("Block")>> ELSE <<>>)
      \o <<Inst("I32Const", 7), Inst("Br", d)>>
      \o (IF d = 1 THEN <<Op("End")>> ELSE <<>>) \o <<Op("End")>>

BrReturnProgram(d) ==
    Program(<<DefinedFunc(<<>>, "I32", 0, BrReturnInsts(d))>>, <<>>, 0)

\* a block that is left by its End with n values above its label:
\*   i32.const 5 block i32.const 1 .. i32.const n end
BlockValuesProgram(n) ==
    Program(<<DefinedFunc(<<>>, "I32", 0,
                <<Inst("I32Const", 5), Op("Block")>>
                  \o [i \in 1..n |-> Inst("I32Const", i)]
                  \o <<Op("End"), Op("End")>>)>>,
            <<>>, 0)

\* a callee that returns from inside a block and a loop, with leftover
\* values on the stack:
\*   entry: i32.const 5 i32.const 6 call 1
\*   f (param i32) [(result i32)]: block i32.const 1 loop i32.const 2
\*     [local.get 0] return end end [i32.const 0]
NestedReturnProgram(res) ==
    Program(<<DefinedFunc(<<>>, "I32", 0,
                <<Inst("I32Const", 5), Inst("I32Const", 6), Inst("Call", 1),
                  Op("End")>>),
              DefinedFunc(<<"I32">>, res, 0,
                <<Op("Block"), Inst("I32Const", 1), Op("Loop"), Inst("I32Const", 2)>>
                  \o (IF res # NoType THEN <<Inst("GetLocal", 0)>> ELSE <<>>)
                  \o <<Op("Return"), Op("End"), Op("End")>>
                  \o (IF res # NoType THEN <<Inst("I32Const", 0)>> ELSE <<>>)
                  \o <<Op("End")>>)>>,
            <<>>, 0)

\* a conditional branch on the value pushed by `cond`:
\*   block i32.const 7 <cond> br_if 0 i32.const 8 end
Conditions ==
    {Inst("I32Const", 0), Inst("I32Const", 1), Inst("I32Const", 2),
     Inst("I64Const", 0), Inst("I64Const", 1)}

BrIfProgram(cond) ==
    Program(<<DefinedFunc(<<>>, "I32", 0,
                <<Op("Block"), Inst("I32Const", 7), cond, Inst("BrIf", 0),
                  Inst("I32Const", 8), Op("End"), Op("End")>>)>>,
            <<>>, 0)

\* operand pairs of i32.add at the ends of the i32 range
ExtremeOperands ==
    {<<MaxI32, 1>>, <<1, MaxI32>>, <<MaxI32, MaxI32>>, <<MinI32, 0 - 1>>,
     <<MinI32, MinI32>>, <<MaxI32, MinI32>>, <<MaxI32, 0>>, <<MinI32, 1>>}

\* forward branches out of one or two blocks, conditional and unconditional,
\* with a Block and an If/Else between the branch and the End it goes to:
\*   block block i32.const c br_if d br 0 nop end
\*     block nop end i32.const 0 if nop else nop end end
ForwardBrProgram(c, d) ==
    Program(<<DefinedFunc(<<>>, NoType, 0,
                <<Op("Block"), Op("Block"), Inst("I32Const", c), Inst("BrIf", d),
                  Inst("Br", 0), Op("Nop"), Op("End"),
                  Op("Block"), Op("Nop"), Op("End"),
                  Inst("I32Const", 0), Op("If"), Op("Nop"), Op("Else"), Op("Nop"),
                  Op("End"), Op("End"), Op("End")>>)>>,
            <<>>, 0)

Programs ==
    {AddProgram(a, b) : a, b \in Operands}
    \cup {CountProgram(n) : n \in 1..MaxCount}
    \cup {LoopBrProgram(n) : n \in 1..MaxCount}
    \cup {IfProgram(c, shape) : c \in {0, 1, 2}, shape \in IfShapes}
    \cup {CallProgram(a, b, how) : a, b \in Operands, how \in Endings}
    \cup {RecProgram(n, how) : n \in 0..MaxCount, how \in Endings}
    \cup {HostProgram(field, n) : field \in HostFields1, n \in {1, 2}}
    \cup {GlobalProgram(g) : g \in {0, 1}}
    \cup {ResultProgram(res, insts) : res \in {NoType, "I32"}, insts \in ResultBodies}
    \cup {BrProgram(d, target, leftover) :
             d \in {0, 1}, target \in BrTargets, leftover \in BOOLEAN}
    \cup {BrReturnProgram(d) : d \in {0, 1}}
    \cup {BlockValuesProgram(n) : n \in 0..2}
    \cup {NestedReturnProgram(res) : res \in {NoType, "I32"}}
    \cup {BrIfProgram(cond) : cond \in Conditions}
    \cup {AddProgram(p[1], p[2]) : p \in ExtremeOperands}
    \cup {ForwardBrProgram(c, d) : c, d \in {0, 1}}

-----------------------------------------------------------------------------
(* The Executor driven step by step: Executor::new, then execute_step as    *)
(* long as it returns Next, with peek_result between the steps.             *)

NoFrame == [some |-> FALSE, frame |-> CallFrame(None, <<>>, NoPc)]

SomeFrame(frame) == [some |-> TRUE, frame |-> frame]

\* the instruction at the PC, a Nop when the PC points to none
CurrentInst ==
    IF exec_pc.func_addr # None /\ exec_pc.func_addr < Len(code)
       /\ exec_pc.inst_index < Len(func(code, exec_pc.func_addr).insts)
    THEN At(func(code, exec_pc.func_addr).insts, exec_pc.inst_index)
    ELSE Op("Nop")

\* the instruction at the PC is the last one of its function
AtLastInst ==
    /\ exec_pc.func_addr # None /\ exec_pc.func_addr < Len(code)
    /\ exec_pc.inst_index = Len(func(code, exec_pc.func_addr).insts) - 1

\* the step about to run calls a Defined function
CallsDefined ==
    /\ CurrentInst.op = "Call"
    /\ CurrentInst.arg < Len(code)
    /\ func(code, CurrentInst.arg).kind = "Defined"

\* the step about to run ends a called function: Return, or the End that is
\* the function's last instruction, in a frame that has a return PC
EndsCallee ==
    /\ has_frame(stack)
    /\ current_frame(stack).ret_pc # NoPc
    /\ \/ CurrentInst.op = "Return"
       \/ CurrentInst.op = "End" /\ AtLastInst

CallRecord ==
    [before |-> stack,
     ret_pc |-> ProgramCounter(exec_pc.func_addr, exec_pc.inst_index + 1),
     callee |-> CurrentInst.arg]

\* Executor::new for the entry function of a program
ExecutorNew(program) ==
    /\ code = program.funcs
    /\ exec_globals = program.globals
    /\ stack = push_label(
                 set_frame(<<>>, new_frame(program.entry,
                                           func(program.funcs, program.entry).locals,
                                           <<>>, NoPc)),
                 ReturnLabel)
    /\ exec_pc = ProgramCounter(program.entry, 0)
    /\ last_ret_frame = SomeFrame(new_frame(program.entry,
                                            func(program.funcs, program.entry).locals,
                                            <<>>, NoPc))
    /\ step_result = NotStepped
    /\ host_args = <<>>
    /\ calls = <<>>
    /\ peeked = NotPeeked

ExecuteStep ==
    /\ step_result \in {NotStepped, StepOk("Next")}
    /\ LET r == execute_step(code, TheExecutor, debug_build)
       IN  /\ stack' = r.E.stack
           /\ exec_pc' = r.E.pc
           /\ exec_globals' = r.E.globals
           /\ host_args' = r.E.host_args
           /\ step_result' = r.r
           /\ calls' = IF CallsDefined /\ r.r # Aborted THEN Append(calls, CallRecord)
                       ELSE IF EndsCallee /\ calls # <<>>
                       THEN SubSeq(calls, 1, Len(calls) - 1)
                       ELSE calls
    /\ peeked' = NotPeeked
    /\ UNCHANGED <<code, last_ret_frame, debug_build>>
    /\ UNCHANGED <<store_vars, pc, call_vars, ncalls>>

PeekResult ==
    /\ step_result # Aborted
    /\ peeked = NotPeeked
    /\ peeked' = peek_result(code, stack, last_ret_frame)
    /\ UNCHANGED <<code, exec_globals, stack, exec_pc, last_ret_frame, step_result,
                   host_args, calls, debug_build>>
    /\ UNCHANGED <<store_vars, pc, call_vars, ncalls>>

ExecInit ==
    /\ \E program \in Programs : ExecutorNew(program)
    /\ debug_build \in BOOLEAN
    /\ funcs = NewCollection
    /\ tables = NewCollection
    /\ mems = NewCollection
    /\ globals = NewCollection
    /\ modules = <<>>
    /\ module_index_by_name = <<>>
    /\ pc = "idle"
    /\ cur = NoModule
    /\ cur_name = NoName
    /\ module_index = None
    /\ result = NoResult
    /\ started = FALSE
    /\ ret = NoResult
    /\ pre = NewStore
    /\ ncalls = 0

ExecNext ==
    \/ ExecuteStep
    \/ PeekResult

ExecSpec == ExecInit /\ [][ExecNext]_vars

\* what a call of execute_step can leave in the PC and in the returned signal:
\* the call is due while the last one returned Next, the PC stays within one
\* past the body of a function of the program
StepOutcome ==
    /\ step_result \in {NotStepped, StepOk("Next")}
    /\ step_result' \in {StepOk("Next"), StepOk("End"), Aborted,
                         StepErr("not supported yet")}
    /\ exec_pc' \in UNION {{ProgramCounter(a, i) : i \in 0..(Len(func(code, a).insts) + 1)}
                             : a \in 0..(Len(code) - 1)}

\* a step of the run changes the PC or the signal exactly when it is a call
\* of execute_step, and such a call is possible whenever one is due
StepIsStepOutcome ==
    [][ExecuteStep <=> (StepOutcome /\ <<exec_pc, step_result>>' # <<exec_pc, step_result>>)]_vars

\* execute_step is called again for as long as the last call returned Next
ExecFairSpec == ExecSpec /\ WF_<<exec_pc, step_result>>(StepOutcome)

-----------------------------------------------------------------------------
(* What instantiation should do, stated on the arguments of the call and   *)
(* the Store as it was when the call began (pre), not on the steps taken.  *)

\* the observable state of a Store: the number of funcs, tables, mems and
\* globals, the module vector and the name map
Observable(S) ==
    [funcs |-> Len(S.funcs.items), tables |-> Len(S.tables.items),
     mems |-> Len(S.mems.items), globals |-> Len(S.globals.items),
     modules |-> S.modules, names |-> S.names]

IncompatibleImportErrors ==
    {"IncompatibleImportFuncType", "IncompatibleImportGlobalType",
     "IncompatibleImportGlobalMutability", "IncompatibleImportTableType",
     "IncompatibleImportMemoryType"}

\* the limit rule of the specification
LimitsRule(actual, requested) ==
    /\ actual.initial >= requested.initial
    /\ requested.max # None => (actual.max # None /\ actual.max <= requested.max)

\* the item an import names, when its provider is registered and exports it
Provided(S, import) ==
    get_global(CollectionOf(S, import.kind), LookupExport(S, import, import.kind).addr)

ImportMatches(S, m, import) ==
    /\ LookupExport(S, import, import.kind).ok
    /\ CASE import.kind = "Func" ->
              /\ import.type_index < Len(m.types)
              /\ Provided(S, import).ty = At(m.types, import.type_index)
         [] import.kind \in {"Mem", "Table"} ->
              LimitsRule(Provided(S, import), import.limits)
         [] import.kind = "Global" ->
              /\ Provided(S, import).mutable = import.mutable
              /\ Provided(S, import).content_type = import.content_type

ImportsMatch(S, m) ==
    \A i \in 1..Len(m.imports) :
        IF m.imports[i].kind = "Func" /\ ~(m.imports[i].type_index < Len(m.types))
        THEN FALSE
        ELSE ImportMatches(S, m, m.imports[i])

FunctionTypesKnown(m) == \A i \in 1..Len(m.funcs) : m.funcs[i].type_ref < Len(m.types)

ImportsOfKind(m, kind) == SelectSeq(m.imports, LAMBDA imp : imp.kind = kind)

\* the number of slots of the tables behind the module's local table indices:
\* what the local list of the index already holds, then the imported tables
\* in import order, then the module's own tables
TableSizes(S, m, idx) ==
    [i \in 1..Len(Locals(S.tables, idx)) |->
        Len(get_global(S.tables, Locals(S.tables, idx)[i]).elements)]
    \o [i \in 1..Len(ImportsOfKind(m, "Table")) |->
        Len(Provided(S, ImportsOfKind(m, "Table")[i]).elements)]
    \o [i \in 1..Len(m.tables) |-> m.tables[i].initial]

\* likewise the sizes in bytes of the module's memories
MemSizes(S, m, idx) ==
    [i \in 1..Len(Locals(S.mems, idx)) |->
        get_global(S.mems, Locals(S.mems, idx)[i]).initial * PageSize]
    \o [i \in 1..Len(ImportsOfKind(m, "Mem")) |->
        Provided(S, ImportsOfKind(m, "Mem")[i]).initial * PageSize]
    \o [i \in 1..Len(m.mems) |-> m.mems[i].initial * PageSize]

ElementSegmentsFit(S, m, idx) ==
    \A k \in 1..Len(m.elems) :
        m.elems[k].index < Len(TableSizes(S, m, idx)) =>
            m.elems[k].offset + Len(m.elems[k].members)
                <= At(TableSizes(S, m, idx), m.elems[k].index)

DataSegmentsFit(S, m, idx) ==
    \A k \in 1..Len(m.data) :
        m.data[k].index < Len(MemSizes(S, m, idx)) =>
            m.data[k].offset + Len(m.data[k].value)
                <= At(MemSizes(S, m, idx), m.data[k].index)

\* every step before the start function succeeds
Instantiable(S, m, idx) ==
    /\ ImportsMatch(S, m)
    /\ FunctionTypesKnown(m)
    /\ ElementSegmentsFit(S, m, idx)
    /\ DataSegmentsFit(S, m, idx)

InInternal == pc \in {"imports", "functions", "globals", "tables", "mems", "append"}

AfterInternalPc == pc \in {"start", "finish", "done"}

Failed == pc = "done" /\ ~ret.ok

\* the items that were in collection `before` are the same in `after`
ItemsKept(before, after) ==
    /\ Len(after.items) >= Len(before.items)
    /\ \A h \in 1..Len(before.items) : after.items[h] = before.items[h]

\* the failing call returned the error of load_parity_module_internal
ReturnsInternalError == ret = result

-----------------------------------------------------------------------------
(* C1: every failing load_parity_module leaves the Store's observable      *)
(* state (the counts of funcs, tables, mems and globals, the module vector *)
(* and the name map) equal to the state before the call.                   *)
FailedLoadRestoresStore == Failed => Observable(TheStore) = Observable(pre)

(* C2: whatever load_host_module / load_parity_module calls follow, failed *)
(* and rolled-back ones included, every address (module index, local       *)
(* index) of a module that is in the module vector keeps resolving to the  *)
(* same item: the module stays at its index, its local lists keep their    *)
(* entries and the items behind them stay in place.                        *)
AddressesKeepResolving ==
    [][\A m \in 0..(Len(modules) - 1) :
          /\ m < Len(modules')
          /\ At(modules', m) = At(modules, m)
          /\ \A i \in 0..(Len(Locals(funcs, m)) - 1) :
                /\ resolve(funcs', m, i) = resolve(funcs, m, i)
                /\ get_global(funcs', resolve(funcs, m, i))
                     = get_global(funcs, resolve(funcs, m, i))
          /\ \A i \in 0..(Len(Locals(globals, m)) - 1) :
                /\ resolve(globals', m, i) = resolve(globals, m, i)
                /\ resolve(globals, m, i) < Len(globals'.items)
          /\ \A i \in 0..(Len(Locals(tables, m)) - 1) :
                /\ resolve(tables', m, i) = resolve(tables, m, i)
                /\ resolve(tables, m, i) < Len(tables'.items)
          /\ \A i \in 0..(Len(Locals(mems, m)) - 1) :
                /\ resolve(mems', m, i) = resolve(mems, m, i)
                /\ resolve(mems, m, i) < Len(mems'.items)]_vars

\* a load has failed and been cleaned up while module 0, loaded before it,
\* has a function and a global of its own
FailedLoadAfterLoadedModule ==
    /\ Failed
    /\ ReturnsInternalError
    /\ module_index >= 1
    /\ At(modules, 0).kind = "Defined"
    /\ Locals(funcs, 0) # <<>>
    /\ Locals(globals, 0) # <<>>

(* C3: an import whose type does not match what the provider exports makes *)
(* the call return the IncompatibleImport* error and the module is never   *)
(* appended, wherever the import stands in the import section.             *)
ImportMismatchRejected ==
    (pc = "done" /\ ~result.ok /\ ErrKind(result) \in IncompatibleImportErrors)
        => (ReturnsInternalError /\ modules = pre.modules)

(* C4: while the steps of load_parity_module_internal run, modules.len()   *)
(* is the pre-assigned module_index; once they are over, the Defined       *)
(* instance has been appended, at exactly that index, if and only if       *)
(* import resolution, function/global/table/memory definition and every    *)
(* element and data segment succeeded.                                     *)
AppendedIffInstantiated ==
    /\ InInternal => (Len(modules) = module_index /\ modules = pre.modules)
    /\ AfterInternalPc =>
          IF Instantiable(pre, cur, module_index)
          THEN /\ result = OkIndex(module_index)
               /\ modules = Append(pre.modules, DefinedModuleInstance(cur, module_index))
               /\ At(modules, module_index).module_index = module_index
          ELSE /\ ~result.ok
               /\ modules = pre.modules

\* a module with an import and a data segment has been instantiated
InstantiatedWithImportAndData ==
    /\ pc = "done"
    /\ ret = OkIndex(module_index)
    /\ cur.imports # <<>>
    /\ cur.data # <<>>
    /\ At(modules, module_index) = DefinedModuleInstance(cur, module_index)

(* C5: when the start function traps, the call returns FailedEntryFunction *)
(* and the Store is rolled back: the instance is removed, the local lists  *)
(* of the module index are cleared and the name binding this call added is *)
(* removed.                                                                *)
StartTrapRollsBack ==
    (Failed /\ result.ok /\ started)
        => /\ ErrKind(ret) = "FailedEntryFunction"
           /\ modules = pre.modules
           /\ is_empty(funcs, module_index)
           /\ is_empty(globals, module_index)
           /\ is_empty(tables, module_index)
           /\ is_empty(mems, module_index)
           /\ (cur_name # NoName /\ cur_name \notin DOMAIN pre.names)
                 => cur_name \notin DOMAIN module_index_by_name

(* C6: the start function is invoked only after the instance has been      *)
(* appended: when an earlier step fails it is never executed, no global,   *)
(* memory or table is changed by it, and the error returned is the one of  *)
(* the failing step.                                                       *)
StartOnlyAfterAppend ==
    (AfterInternalPc /\ ~result.ok)
        => /\ ~started
           /\ ItemsKept(pre.globals, globals)
           /\ pc = "done" => ReturnsInternalError

(* C7: a failed load given a name removes the binding of that name only if *)
(* this call added it: a binding the name had before the call still maps   *)
(* the name to the same module index.                                      *)
OldNameBindingKept ==
    (Failed /\ cur_name # NoName /\ cur_name \in DOMAIN pre.names)
        => /\ cur_name \in DOMAIN module_index_by_name
           /\ module_index_by_name[cur_name] = pre.names[cur_name]

(* C8: an element segment that overruns its table makes the call return    *)
(* InvalidElementSegments, and after any failed instantiation every table  *)
(* that existed before the call, an imported one above all, holds exactly  *)
(* the elements it held before, even if earlier segments had been applied. *)
FailedLoadKeepsTables ==
    /\ (pc = "done" /\ ImportsMatch(pre, cur) /\ FunctionTypesKnown(cur)
          /\ ~ElementSegmentsFit(pre, cur, module_index))
          => (~ret.ok /\ ErrKind(ret) = "InvalidElementSegments")
    /\ Failed => ItemsKept(pre.tables, tables)

(* C9: data segments are all or nothing: a module one of whose data        *)
(* segments does not fit returns InvalidDataSegments and no byte of any    *)
(* memory has changed.                                                     *)
DataSegmentsAllOrNothing ==
    (pc = "done" /\ ImportsMatch(pre, cur) /\ FunctionTypesKnown(cur)
       /\ ElementSegmentsFit(pre, cur, module_index)
       /\ ~DataSegmentsFit(pre, cur, module_index))
        => /\ ~ret.ok
           /\ ErrKind(ret) = "InvalidDataSegments"
           /\ ItemsKept(pre.mems, mems)
           /\ \A h \in (Len(pre.mems.items) + 1)..Len(mems.items) :
                 mems.items[h].bytes = <<>>

(* C10: a memory or table import is accepted if and only if the provider's *)
(* initial is at least the requested initial and, when a maximum is        *)
(* requested, the provider has one that is not larger; otherwise the call  *)
(* returns IncompatibleImportMemoryType / IncompatibleImportTableType and  *)
(* nothing has been linked. Stated for a module whose only import is the   *)
(* memory or the table.                                                    *)
LimitsDecideImport ==
    (pc = "done" /\ Len(cur.imports) = 1
       /\ cur.imports[1].kind \in {"Mem", "Table"}
       /\ LookupExport(pre, cur.imports[1], cur.imports[1].kind).ok)
        => LET import == cur.imports[1]
               before == CollectionOf(pre, import.kind)
               after == CollectionOf(TheStore, import.kind)
               mismatch == IF import.kind = "Mem" THEN "IncompatibleImportMemoryType"
                           ELSE "IncompatibleImportTableType"
           IN  IF LimitsRule(Provided(pre, import), import.limits)
               THEN /\ ~ret.ok => ErrKind(ret) # mismatch
                    /\ ret.ok => Locals(after, module_index)
                                   = Append(Locals(before, module_index),
                                            LookupExport(pre, import, import.kind).addr)
               ELSE /\ ~ret.ok
                    /\ ErrKind(ret) = mismatch
                    /\ Locals(after, module_index) = Locals(before, module_index)

(* C11: a global import is linked only when the provider's global has the   *)
(* mutability and the content type the import declares; a mutability       *)
(* mismatch yields IncompatibleImportGlobalMutability and a content-type   *)
(* mismatch yields IncompatibleImportGlobalType(expected, actual): first   *)
(* the type the importing module declared, then the provider's type.       *)
(* Stated on the result of load_parity_module_internal for a module whose  *)
(* only import is the global.                                              *)
GlobalImportErrorOrder ==
    (AfterInternalPc /\ Len(cur.imports) = 1 /\ cur.imports[1].kind = "Global"
       /\ LookupExport(pre, cur.imports[1], "Global").ok)
        => LET import == cur.imports[1]
               provider == Provided(pre, import)
           IN  IF provider.mutable # import.mutable
               THEN result = Err(<<"IncompatibleImportGlobalMutability">>)
               ELSE IF provider.content_type # import.content_type
               THEN result = Err(<<"IncompatibleImportGlobalType",
                                   import.content_type, provider.content_type>>)
               ELSE ~result.ok => ErrKind(result) \notin IncompatibleImportErrors

(* C12: loading a module that imports from a module name that was never    *)
(* registered surfaces a typed instantiation error to the caller, it does  *)
(* not abort, and leaves the Store as it was before the call.              *)
UnknownModuleIsTypedError ==
    (pc \notin {"idle", "imports"}
       /\ \E i \in 1..Len(cur.imports) : cur.imports[i].module \notin DOMAIN pre.names)
        => /\ pc # "aborted"
           /\ pc = "done" => (~ret.ok /\ Observable(TheStore) = Observable(pre))

\* the values on top of stack `s`, as many as function `f` has results, in
\* stack order
ResultsOnTop(s, f) ==
    Reverse(pop_values(s, IF f.result # NoType THEN 1 ELSE 0, <<>>).values)

\* the stack a Call leaves once its callee has returned: the stack before the
\* Call without the arguments, with the callee's results pushed
AfterCall(call, results) ==
    push_values(pop_values(call.before,
                           Len(func(code, call.callee).params), <<>>).stack,
                results)

(* C13: the step that ends a called Defined function, its Return or the End *)
(* that is its last instruction, leaves the stack equal to the stack before *)
(* the Call minus the arguments plus the results, the callee's activation   *)
(* and Return label gone, and sets the PC to the frame's return_pc, the     *)
(* instruction right after the Call; nested and recursive calls included.   *)
CallReturnParity ==
    [][(ExecuteStep /\ EndsCallee /\ calls # <<>>)
         => LET call == calls[Len(calls)]
            IN  /\ step_result' # Aborted
                /\ stack' = AfterCall(call,
                                      ResultsOnTop(stack, func(code, call.callee)))
                /\ exec_pc' = call.ret_pc]_vars

\* the step about to run is a `Br 0` whose innermost label is a Loop label
BrZeroInLoop ==
    /\ CurrentInst.op = "Br"
    /\ CurrentInst.arg = 0
    /\ has_label(stack)
    /\ peek_last_label(stack).t = "Loop"

\* how many entries of stack `s` are the label `l`
LabelCount(s, l) == Cardinality({i \in 1..Len(s) : s[i] = LabelEntry(l)})

(* C14: a `Br 0` inside a Loop sets the PC to the loop's start index that   *)
(* the Loop label recorded, the index of the first instruction of the loop  *)
(* body; the labels of the frame are unchanged, the Loop label is on the    *)
(* stack exactly once, and the step returns Next, so that the next          *)
(* iteration runs the loop body from its first instruction.                 *)
BrZeroRestartsLoop ==
    [][(ExecuteStep /\ BrZeroInLoop)
         => LET l == peek_last_label(stack)
                insts == func(code, exec_pc.func_addr).insts
            IN  /\ step_result' = StepOk("Next")
                /\ exec_pc' = ProgramCounter(exec_pc.func_addr, l.inst_index)
                /\ l.inst_index - 1 < exec_pc.inst_index
                /\ At(insts, l.inst_index - 1).op = "Loop"
                /\ current_frame_labels(stack') = current_frame_labels(stack)
                /\ peek_last_label(stack') = l
                /\ LabelCount(stack', l) = 1]_vars

\* a `Br 0` has taken the executor back to the first instruction of the loop
\* body: local 0 has been incremented at least once
LoopRestartedByBr ==
    /\ \E n \in 1..MaxCount : code = LoopBrProgram(n).funcs
    /\ step_result = StepOk("Next")
    /\ has_label(stack)
    /\ peek_last_label(stack).t = "Loop"
    /\ exec_pc.inst_index = peek_last_label(stack).inst_index
    /\ local(stack, 0).v >= 1

(* C15: the counting loop `block loop <increment local 0> local.get 0       *)
(* i32.const n i32.lt_s br_if 0 end end local.get 0`, started with local 0  *)
(* = 0, never traps, leaves the loop when br_if is not taken, so that local *)
(* 0 never exceeds n, and when execute_step returns End peek_result         *)
(* returns [I32(n)].                                                        *)
CountingLoopYieldsN ==
    \A n \in 1..MaxCount :
        code = CountProgram(n).funcs
            => /\ step_result \in {NotStepped, StepOk("Next"), StepOk("End")}
               /\ has_frame(stack) => local(stack, 0).v <= n
               /\ step_result = StepOk("End")
                      => peek_result(code, stack, last_ret_frame) = PeekOk(<<I32(n)>>)

\* the marks an If with condition c and the bodies of `shape` must leave in
\* locals 0..2: the then-body marks local 0, the else-body local 1, and the
\* branch of the nested If that runs marks local 2
IfMarks(c, shape) ==
    <<I32(IF c # 0 THEN 1 ELSE 0),
      I32(IF c = 0 /\ HasElse(shape) THEN 1 ELSE 0),
      I32(IF \/ c # 0 /\ shape \in {"nested", "nested-no-else"}
             \/ c = 0 /\ shape = "nested"
          THEN 1 ELSE 0)>>

(* C16: for `if <then> else <else> end` and `if <then> end` with bodies     *)
(* that contain nested Block, If and Loop: no step traps; only the bodies   *)
(* selected by the conditions ever run; once the PC is just past the        *)
(* matching End, exactly the selected bodies have run and the If label has  *)
(* been popped, the frame holding its Return label only.                    *)
IfRunsSelectedBody ==
    \A c \in {0, 1, 2}, shape \in IfShapes :
        code = IfProgram(c, shape).funcs
            => /\ step_result \in {NotStepped, StepOk("Next"), StepOk("End")}
               /\ has_frame(stack)
                      => \A i \in 0..2 : local(stack, i).v <= IfMarks(c, shape)[i + 1].v
               /\ (has_frame(stack) /\ exec_pc.inst_index = Len(IfInsts(c, shape)))
                      => /\ current_frame(stack).locals = IfMarks(c, shape)
                         /\ current_frame_labels(stack) = <<ReturnLabel>>
               /\ step_result = StepOk("End")
                      => exec_pc.inst_index = Len(IfInsts(c, shape)) + 1

\* the step about to run completes the entry function: the End that is its
\* last instruction, or a Return, executed in the frame without a return PC
CompletesEntry ==
    /\ has_frame(stack)
    /\ current_frame(stack).ret_pc = NoPc
    /\ \/ CurrentInst.op = "Return"
       \/ CurrentInst.op = "End" /\ AtLastInst

(* C17: an execute_step that succeeds returns End exactly when it completes *)
(* the entry function, by its final End or by a Return executed in the      *)
(* entry frame, and Next on every other step, the End of a nested block and *)
(* the end of a callee included.                                            *)
EndExactlyOnCompletion ==
    [][ExecuteStep
         => /\ (CompletesEntry /\ step_result'[1] = "Ok")
                   => step_result' = StepOk("End")
            /\ step_result' = StepOk("End") => CompletesEntry
            /\ (~CompletesEntry /\ step_result'[1] = "Ok")
                   => step_result' = StepOk("Next")]_vars

\* what peek_result should return for function `f`, the function of the last
\* completed frame, and stack `s`
CheckedResult(f, s) ==
    IF f.result = NoType THEN PeekOk(<<>>)
    ELSE IF ~has_value(s) THEN PeekErr(<<"NoValue", f.result>>)
    ELSE IF value_type(peek_last_value(s)) = f.result
    THEN PeekOk(<<peek_last_value(s)>>)
    ELSE PeekErr(<<"TypeMismatchReturnValue", peek_last_value(s), f.result>>)

(* C18: once the entry function has completed, peek_result returns the       *)
(* values of the completed frame checked against the declared result: the   *)
(* empty vector when none is declared, [v] when the value on top has the    *)
(* declared type, TypeMismatchReturnValue when it has another type and      *)
(* NoValue when there is no value; on an executor that has not run a step,  *)
(* where no frame has completed, it returns NoCallFrame.                    *)
PeekResultChecksResult ==
    peeked # NotPeeked
        => /\ step_result = StepOk("End")
                  => peeked = CheckedResult(func(code, last_ret_frame.frame.func_addr),
                                            stack)
           /\ step_result = NotStepped => peeked = PeekErr(<<"NoCallFrame">>)

\* the arguments of a call of function `f` on stack `s`: the top values, one
\* per parameter, the deepest first
ArgumentsOnTop(s, f) == Reverse(pop_values(s, Len(f.params), <<>>).values)

(* C19: a Call pops exactly as many values as the callee has parameters and *)
(* hands them over in declaration order, the deepest popped value as        *)
(* parameter 0: a Defined callee finds them in locals 0..n-1 of its new     *)
(* frame, a Host callee receives them as its argument vector; the rest of   *)
(* the stack is untouched and the step returns Next.                        *)
CallPassesArguments ==
    [][(ExecuteStep /\ CurrentInst.op = "Call")
         => LET f == func(code, CurrentInst.arg)
                n == Len(f.params)
                args == ArgumentsOnTop(stack, f)
                rest == pop_values(stack, n, <<>>).stack
            IN  /\ step_result' = StepOk("Next")
                /\ IF f.kind = "Defined"
                   THEN /\ has_frame(stack')
                        /\ current_frame(stack').func_addr = CurrentInst.arg
                        /\ SubSeq(current_frame(stack').locals, 1, n) = args
                        /\ stack' = push_label(set_frame(rest, current_frame(stack')),
                                               ReturnLabel)
                        /\ host_args' = host_args
                   ELSE /\ host_args' = Append(host_args, args)
                        /\ stack' = rest]_vars

\* the step about to run is a SetGlobal with a value to pop
SetsGlobal == CurrentInst.op = "SetGlobal" /\ has_value(stack)

(* C20: a SetGlobal on an immutable global is rejected: execute_step        *)
(* returns the trap InvariantViolation and the globals are unchanged; on a  *)
(* mutable global the step returns Next and the global holds the popped     *)
(* value, the other globals unchanged.                                      *)
SetGlobalRespectsMutability ==
    [][(ExecuteStep /\ SetsGlobal)
         => LET g == CurrentInst.arg
            IN  IF global(exec_globals, g).mutable
                THEN /\ step_result' = StepOk("Next")
                     /\ exec_globals' = set_global(exec_globals, g,
                                                   peek_last_value(stack))
                ELSE /\ step_result' = StepErr("InvariantViolation")
                     /\ exec_globals' = exec_globals]_vars

\* the opcodes execute_inst has an arm for
HandledOps ==
    {"Unreachable", "GetGlobal", "SetGlobal", "SetLocal", "GetLocal", "I32Const",
     "I32Add", "I32LtS", "I64Const", "F32Const", "F64Const", "Block", "Loop", "If",
     "Else", "BrIf", "Br", "Call", "Return", "End", "Nop"}

(* C21: executing an opcode the interpreter has no arm for makes            *)
(* execute_step return an error value, the trap that names the instruction, *)
(* never Next or End and never an abort, and leaves the stack, the globals  *)
(* and what the host has received as they were before the step.             *)
UnsupportedOpReturnsTrap ==
    [][(ExecuteStep /\ CurrentInst.op \notin HandledOps)
         => /\ step_result'[1] = "Err"
            /\ stack' = stack
            /\ exec_globals' = exec_globals
            /\ host_args' = host_args]_vars

(* C22: executing Unreachable makes execute_step return the execution trap  *)
(* Unreachable as an error value, it does not abort, and the stack is left  *)
(* as it was.                                                               *)
UnreachableReturnsTrap ==
    [][(ExecuteStep /\ CurrentInst.op = "Unreachable")
         => /\ step_result'[1] = "Err"
            /\ stack' = stack]_vars

\* collection `after` is collection `before` with `n` items appended to the
\* global list and no local list changed
GloballyAppended(before, after, n) ==
    /\ Len(after.items) = Len(before.items) + n
    /\ SubSeq(after.items, 1, Len(before.items)) = before.items
    /\ after.locals = before.locals

\* handle `h` of collection `c` is in no module's local list
InNoLocalList(c, h) ==
    \A m \in DOMAIN c.locals : \A i \in 1..Len(c.locals[m]) : c.locals[m][i] # h

(* C23: load_host_module appends exactly one Host module instance, at the   *)
(* index the module vector had as its length, binds the given name to that  *)
(* index, and adds each export to the global list of its collection and to  *)
(* no module's local list: the export map of the new instance holds the     *)
(* handle of each new item, and no local list does.                         *)
HostModuleAppended ==
    [][LoadHostModule
         => LET idx == Len(modules)
                instance == modules'[idx + 1]
                after == [Func |-> funcs', Global |-> globals',
                          Table |-> tables', Mem |-> mems']
            IN  /\ Len(modules') = idx + 1
                /\ SubSeq(modules', 1, idx) = modules
                /\ instance.kind = "Host"
                /\ \E name \in Names :
                      module_index_by_name' = (name :> idx) @@ module_index_by_name
                /\ GloballyAppended(funcs, funcs', 1)
                /\ GloballyAppended(globals, globals', 1)
                /\ GloballyAppended(tables, tables', 1)
                /\ GloballyAppended(mems, mems', 1)
                /\ DOMAIN instance.exports = {"f", "g", "t", "m"}
                /\ \A field \in DOMAIN instance.exports :
                      LET e == instance.exports[field]
                      IN  /\ e.addr = Len(after[e.kind].items) - 1
                          /\ InNoLocalList(after[e.kind], e.addr)]_vars

\* a host module has been loaded into a Store that held a module with local
\* lists of its own
HostModuleAfterDefined ==
    /\ pc = "idle"
    /\ Len(modules) = 2
    /\ modules[1].kind = "Defined"
    /\ modules[2].kind = "Host"
    /\ DOMAIN globals.locals # {}

\* the 0-based index of the first Br in `insts`
BrIndex(insts) == (CHOOSE i \in 1..Len(insts) : insts[i].op = "Br"
                                                 /\ \A j \in 1..(i - 1) : insts[j].op # "Br") - 1

(* C24: a Br(d) that targets a Block or an If never traps; nothing between  *)
(* the branch and the End of the target is executed, nested Block, Loop and *)
(* If constructs included; once the End of the target has been executed and *)
(* the PC is just past it, the d + 1 innermost labels are gone, the frame   *)
(* holding its Return label only, and the result value of the branch is on  *)
(* top of the stack. A Br whose target is the Return label of the frame     *)
(* aborts.                                                                  *)
BrLeavesTarget ==
    /\ \A d \in {0, 1}, target \in BrTargets, leftover \in BOOLEAN :
          code = BrProgram(d, target, leftover).funcs
              => /\ step_result \in {NotStepped, StepOk("Next"), StepOk("End")}
                 /\ \A i \in 1..Len(stack) : stack[i] # ValueEntry(I32(99))
                 /\ exec_pc.inst_index >= Len(BrInsts(d, target, leftover)) - 1
                        => /\ current_frame_labels(stack)
                                = IF step_result = StepOk("End") THEN <<>>
                                  ELSE <<ReturnLabel>>
                           /\ has_value(stack)
                           /\ peek_last_value(stack) = I32(7)
    /\ \A d \in {0, 1} :
          (code = BrReturnProgram(d).funcs
             /\ exec_pc.inst_index > BrIndex(BrReturnInsts(d)))
              => step_result = Aborted

\* the step about to run is an End that ends a block: the frame has labels
EndsBlock ==
    /\ CurrentInst.op = "End"
    /\ has_frame(stack)
    /\ current_frame_labels(stack) # <<>>

(* C25: the End of a block pops exactly the innermost label: the values     *)
(* that stood above the label stay on the stack in their bottom-to-top      *)
(* order and everything below the label is unchanged, so the stack after    *)
(* the step is the stack before it without that label.                      *)
BlockEndKeepsOrder ==
    [][(ExecuteStep /\ EndsBlock)
         => stack' = RemoveAt(stack, LastOf(stack, "Label"))]_vars

\* the step about to run is a Return in a called function
ReturnsFromCallee ==
    /\ CurrentInst.op = "Return"
    /\ has_frame(stack)
    /\ current_frame(stack).ret_pc # NoPc

\* the entries of stack `s` below its current activation
BelowFrame(s) == SubSeq(s, 1, LastOf(s, "Activation") - 1)

(* C26: a Return executed in a callee, inside nested blocks and loops and   *)
(* with leftover values below the result, takes the result values before it *)
(* unwinds: afterwards the stack is what was below the callee's activation  *)
(* with the values that were on top at the Return, as many as the function  *)
(* has results, pushed on it; no label, leftover value or activation of the *)
(* callee remains, the PC is the frame's return_pc and the step returns     *)
(* Next.                                                                    *)
ReturnUnwindsCallee ==
    [][(ExecuteStep /\ ReturnsFromCallee)
         => LET f == func(code, current_frame(stack).func_addr)
            IN  /\ step_result' = StepOk("Next")
                /\ stack' = push_values(BelowFrame(stack), ResultsOnTop(stack, f))
                /\ exec_pc' = current_frame(stack).ret_pc]_vars

\* the callee has returned 6 from inside its block and loop: the caller is
\* back at the instruction after the Call with 5 and 6 on its stack
ReturnedFromNestedBlocks ==
    /\ code = NestedReturnProgram("I32").funcs
    /\ step_result = StepOk("Next")
    /\ exec_pc = ProgramCounter(0, 3)
    /\ current_frame_labels(stack) = <<ReturnLabel>>
    /\ peek_last_value(stack) = I32(6)

\* the step about to run is a BrIf with a value to pop
BranchesIf == CurrentInst.op = "BrIf" /\ has_value(stack)

\* the executor as the instruction after the PC finds it once the topmost
\* value has been popped
ConditionPopped ==
    [TheExecutor EXCEPT !.stack = pop_value(stack).stack,
                        !.pc.inst_index = @ + 1]

(* C27: BrIf(d) pops one condition. When it is I32(0) the step only removes *)
(* the condition and moves the PC to the next instruction; when it is a     *)
(* non-zero I32 the step does what Br(d) does on the stack without the      *)
(* condition; a condition that is not an I32, I64(0) for one, never makes   *)
(* the step branch.                                                         *)
BrIfBranchesOnNonZeroI32 ==
    [][(ExecuteStep /\ BranchesIf)
         => LET cond == peek_last_value(stack)
                taken == branch(code, ConditionPopped, CurrentInst.arg)
            IN  CASE cond = I32(0) ->
                       /\ step_result' = StepOk("Next")
                       /\ stack' = ConditionPopped.stack
                       /\ exec_pc' = ConditionPopped.pc
                  [] cond.t = "I32" /\ cond.v # 0 ->
                       /\ step_result' = taken.r
                       /\ stack' = taken.E.stack
                       /\ exec_pc' = taken.E.pc
                  [] OTHER ->
                       ~(/\ step_result'[1] = "Ok"
                         /\ exec_pc' # ConditionPopped.pc)]_vars

\* the step about to run is an I32Add with two i32 operands on the stack
AddsI32 ==
    /\ CurrentInst.op = "I32Add"
    /\ pop_values(stack, 2, <<>>).ok
    /\ \A i \in 1..2 : pop_values(stack, 2, <<>>).values[i].t = "I32"

\* lhs + rhs modulo 2^32 as a signed 32-bit value
SumMod32(lhs, rhs) ==
    IF rhs >= 0
    THEN IF lhs <= MaxI32 - rhs THEN lhs + rhs
         ELSE MinI32 + ((lhs - (MaxI32 - rhs)) - 1)
    ELSE IF lhs >= MinI32 - rhs THEN lhs + rhs
         ELSE ((lhs - (MinI32 - rhs)) + MaxI32) + 1

(* C28: I32.Add never traps or aborts: for every pair of operands, those    *)
(* whose sum lies outside the i32 range included, the step returns Next and *)
(* replaces the two operands by (lhs + rhs) modulo 2^32 as a signed 32-bit  *)
(* value, 2147483647 + 1 giving -2147483648.                                *)
AddWrapsAround ==
    [][(ExecuteStep /\ AddsI32)
         => LET top == pop_values(stack, 2, <<>>)
                rhs == top.values[1].v
                lhs == top.values[2].v
            IN  /\ step_result' = StepOk("Next")
                /\ stack' = push_value(top.stack, I32(SumMod32(lhs, rhs)))]_vars

\* the step about to run is a binary integer instruction with two i32
\* operands on the stack, an I32Add whose sum stays in the i32 range or an
\* I32LtS
BinaryIntOp ==
    /\ CurrentInst.op \in {"I32Add", "I32LtS"}
    /\ pop_values(stack, 2, <<>>).ok
    /\ \A i \in 1..2 : pop_values(stack, 2, <<>>).values[i].t = "I32"
    /\ CurrentInst.op = "I32Add"
           => ~AddOverflows(pop_values(stack, 2, <<>>).values[2].v,
                            pop_values(stack, 2, <<>>).values[1].v)

(* C29: a binary integer instruction pops the right operand first and the   *)
(* left operand second and pushes one result, so that the stack is the      *)
(* stack without its two topmost values plus one value: I32.LtS pushes      *)
(* I32(1) when the value pushed earlier is less than the value pushed       *)
(* later, I32(0) otherwise, and I32.Add pushes their sum.                   *)
BinaryOpOperandOrder ==
    [][(ExecuteStep /\ BinaryIntOp)
         => LET later == stack[LastOf(stack, "Value")].e
                rest == RemoveAt(stack, LastOf(stack, "Value"))
                earlier == rest[LastOf(rest, "Value")].e
                below == RemoveAt(rest, LastOf(rest, "Value"))
            IN  /\ step_result' = StepOk("Next")
                /\ stack' = Append(below,
                                   ValueEntry(
                                     IF CurrentInst.op = "I32LtS"
                                     THEN I32(IF earlier.v < later.v THEN 1 ELSE 0)
                                     ELSE I32(earlier.v + later.v)))]_vars

\* the callee has compared its parameters 1 and 2 with I32.LtS: 1 is on top
LessThanCompared ==
    /\ code = CallProgram(1, 2, "Return").funcs
    /\ step_result = StepOk("Next")
    /\ exec_pc = ProgramCounter(1, 3)
    /\ peek_last_value(stack) = I32(1)

\* the positions of the global imports in the import section of `m`
ImportedGlobals(m) == {k \in 1..Len(m.imports) : m.imports[k].kind = "Global"}

\* the local global index the import at position k gets: the number of
\* global imports before it
GlobalLocalIndex(m, k) ==
    Cardinality({j \in 1..(k - 1) : m.imports[j].kind = "Global"})

\* the import that becomes local global 0 of `m`
FirstGlobalImport(m) ==
    m.imports[CHOOSE k \in ImportedGlobals(m) : GlobalLocalIndex(m, k) = 0]

\* the start function has run the body i32.const 1; global.set 0 to its end;
\* it is a function of the module being instantiated, whose global 0 is
\* imported
StartSetsImportedGlobal ==
    /\ InvokeStart
    /\ started'
    /\ pc' = "finish"
    /\ ImportedGlobals(cur) # {}
    /\ LET start_func == get_global(funcs, resolve(funcs, module_index, cur.start))
       IN  /\ start_func.kind = "Defined"
           /\ start_func.module_index = module_index
           /\ start_func.body = "SetGlobal"

(* C30: import linking shares.  When the import section of a module has     *)
(* been linked, each imported global resolves, at its local address in the  *)
(* importer, to the handle the provider's export resolves to, and no global *)
(* was created.  When the importer's start function then executes           *)
(* global.set 0 on its imported global, the value is the one read through   *)
(* the provider's own local address, and no other global changes.           *)
ImportSharesGlobal ==
    [][/\ (LoadImports /\ pc' = "functions")
            => /\ globals'.items = globals.items
               /\ \A k \in ImportedGlobals(cur) :
                     LET found == LookupExport(TheStore, cur.imports[k], "Global")
                     IN  /\ found.ok
                         /\ resolve(globals', module_index, GlobalLocalIndex(cur, k))
                               = found.addr
       /\ StartSetsImportedGlobal
            => LET import == FirstGlobalImport(cur)
                   found == LookupExport(TheStore, import, "Global")
                   provider == At(modules, module_index_by_name[import.module])
               IN  /\ found.ok
                   /\ resolve(globals, module_index, 0) = found.addr
                   /\ get_global(globals', found.addr).value = I32(1)
                   /\ provider.kind = "Defined"
                        => get_global(globals',
                                      resolve(globals', provider.module_index,
                                              provider.exports[import.field].index)).value
                              = I32(1)
                   /\ globals'.locals = globals.locals
                   /\ Len(globals'.items) = Len(globals.items)
                   /\ \A h \in 0..(Len(globals.items) - 1) :
                         h # found.addr
                           => get_global(globals', h) = get_global(globals, h)]_vars

\* module 0, registered as "env", defines and exports a global that was 0
\* when the importer's instantiation began; the importer's start function has
\* set it to 1 through its own local address 0
ImportedGlobalWritten ==
    /\ pc = "finish"
    /\ started
    /\ ImportedGlobals(cur) # {}
    /\ Len(modules) >= 1
    /\ modules[1].kind = "Defined"
    /\ "env" \in DOMAIN module_index_by_name
    /\ module_index_by_name["env"] = 0
    /\ module_index = 1
    /\ get_global(pre.globals, resolve(pre.globals, 0, 0)).value = I32(0)
    /\ resolve(globals, 1, 0) = resolve(globals, 0, 0)
    /\ get_global(globals, resolve(globals, 0, 0)).value = I32(1)

\* the labels of the blocks lexically open in front of instruction `upto` of
\* `insts`, outermost first, on top of `acc`: Block, Loop and If open one, End
\* closes the innermost
RECURSIVE OpenLabels(_, _, _, _)
OpenLabels(insts, index, upto, acc) ==
    IF ~(index < upto) \/ ~(index < Len(insts)) THEN acc
    ELSE
      LET op == At(insts, index).op
      IN  OpenLabels(insts, index + 1, upto,
                     CASE op = "Block" -> Append(acc, BlockLabel)
                       [] op = "If" -> Append(acc, IfLabel)
                       [] op = "Loop" -> Append(acc, new_loop(index + 1))
                       [] op = "End" /\ acc # <<>> -> SubSeq(acc, 1, Len(acc) - 1)
                       [] OTHER -> acc)

\* the executor stands between two instructions of a running function
AtInstructionBoundary ==
    /\ step_result \in {NotStepped, StepOk("Next")}
    /\ has_frame(stack)

\* the positions of the Activation entries of stack `s`, as a set
Activations(s) == {i \in 1..Len(s) : s[i].k = "Activation"}

\* the position of the activation of the k-th pending call, the entry
\* frame's being the lowest
ActivationOfCall(s, k) ==
    CHOOSE i \in Activations(s) :
        Cardinality({j \in Activations(s) : j < i}) = k

(* C31: at every instruction boundary the labels above the current          *)
(* activation are the frame's Return label followed by one label for each   *)
(* block lexically open at the PC, in order (a Loop label holding the index *)
(* of the first instruction of its body), the PC is in the function of the  *)
(* current activation, and below the activation of every pending call lies  *)
(* the caller's stack as it was before the Call, without the arguments.     *)
LabelsMatchOpenBlocks ==
    AtInstructionBoundary
      => /\ current_frame(stack).func_addr = exec_pc.func_addr
         /\ current_frame_labels(stack)
               = OpenLabels(func(code, exec_pc.func_addr).insts, 0,
                            exec_pc.inst_index, <<ReturnLabel>>)
         /\ Cardinality(Activations(stack)) = Len(calls) + 1
         /\ \A k \in 1..Len(calls) :
               SubSeq(stack, 1, ActivationOfCall(stack, k) - 1)
                  = pop_values(calls[k].before,
                               Len(func(code, calls[k].callee).params), <<>>).stack

\* the handles the import section of `m` resolves to in Store S, for one
\* kind, in import order
ImportedHandles(S, m, kind) ==
    [i \in 1..Len(ImportsOfKind(m, kind)) |->
        LookupExport(S, ImportsOfKind(m, kind)[i], kind).addr]

\* the handles of n items appended to a collection that held `before` items
NewHandles(before, n) == [j \in 1..n |-> Len(before.items) + j - 1]

\* the local list of the module being instantiated is the imports of the
\* kind in import order followed by its `n` own definitions, the own ones
\* being the items this load has appended
OneIndexSpace(kind, n) ==
    Locals(CollectionOf(TheStore, kind), module_index)
       = ImportedHandles(pre, cur, kind) \o NewHandles(CollectionOf(pre, kind), n)

\* the load_parity_module call has returned Ok
Instantiated == pc = "done" /\ ret.ok

(* C32: when load_parity_module has returned Ok for a module with k imports *)
(* of a kind, local indices 0..k-1 of that kind resolve to the handles of   *)
(* the imported items, in import order, and the j-th own definition         *)
(* resolves at local index k+j to the item this load appended for it: own   *)
(* function j has the body of the j-th entry of the function section and    *)
(* this module's index, own global j the type of the j-th global entry.     *)
ImportsThenOwnItems ==
    Instantiated
      => /\ OneIndexSpace("Func", Len(cur.funcs))
         /\ OneIndexSpace("Global", Len(cur.globals))
         /\ OneIndexSpace("Table", Len(cur.tables))
         /\ OneIndexSpace("Mem", Len(cur.mems))
         /\ \A j \in 1..Len(cur.funcs) :
               LET h == resolve(funcs, module_index,
                                Len(ImportsOfKind(cur, "Func")) + j - 1)
               IN  /\ h # None
                   /\ get_global(funcs, h).kind = "Defined"
                   /\ get_global(funcs, h).module_index = module_index
                   /\ get_global(funcs, h).body = cur.funcs[j].body
         /\ \A j \in 1..Len(cur.globals) :
               LET h == resolve(globals, module_index,
                                Len(ImportsOfKind(cur, "Global")) + j - 1)
               IN  /\ h # None
                   /\ get_global(globals, h).content_type = cur.globals[j].content_type
                   /\ get_global(globals, h).mutable = cur.globals[j].mutable

\* a module with an imported and an own function and an imported and an own
\* global has been instantiated, and its start function, local function 1,
\* has run
ImportsAndOwnItemsLoaded ==
    /\ Instantiated
    /\ cur \in IndexModules
    /\ started
    /\ Len(Locals(funcs, module_index)) = 2
    /\ Len(Locals(globals, module_index)) = 2

\* module index `idx` has no local entry in any collection of Store S
NoLocalEntries(S, idx) ==
    \A kind \in {"Func", "Global", "Table", "Mem"} : is_empty(CollectionOf(S, kind), idx)

(* C33: when load_parity_module has returned an error, the module index of  *)
(* the failed attempt has no local entry left in any collection and no      *)
(* instance was added, so the next load receives the same index; and every  *)
(* load_parity_module begins with empty local lists for its module index,   *)
(* so that its local indices resolve only to what it links or pushes.       *)
NoStaleLocalEntries ==
    /\ Failed => /\ Len(modules) = Len(pre.modules)
                 /\ NoLocalEntries(TheStore, module_index)
    /\ pc = "imports" => NoLocalEntries(TheStore, module_index)

\* the If shapes without a Loop
LoopFreeShapes == IfShapes \ {"nested-loop"}

\* the well-formed programs of the model whose only function has no Loop and
\* no Call and uses only instructions the interpreter implements: sums,
\* If/Else constructs, forward branches, a global write, an empty block and
\* bodies that end by End or by Return
LoopFreePrograms ==
    {AddProgram(a, b) : a, b \in Operands}
    \cup {AddProgram(p[1], p[2]) : p \in ExtremeOperands}
    \cup {IfProgram(c, shape) : c \in {0, 1, 2}, shape \in LoopFreeShapes}
    \cup {ForwardBrProgram(c, d) : c, d \in {0, 1}}
    \cup {GlobalProgram(0), BlockValuesProgram(0)}
    \cup {ResultProgram(NoType, <<>>), ResultProgram(NoType, <<Op("Nop")>>),
          ResultProgram("I32", <<Inst("I32Const", 3)>>),
          ResultProgram("I32", <<Inst("I32Const", 3), Op("Return")>>)}

RunsLoopFreeProgram == \E program \in LoopFreePrograms : code = program.funcs

\* the 0-based index of the last instruction of the function the PC is in
LastInstIndex == Len(func(code, exec_pc.func_addr).insts) - 1

(* C34: for a well-formed function body without Loop and without Call,      *)
(* repeated execute_step from the entry frame eventually returns End; every *)
(* step moves the PC strictly forward, and whenever a further step is to be *)
(* taken the PC is not past the index of the function's last instruction.   *)
LoopFreeBodyReachesEnd ==
    /\ [][(ExecuteStep /\ RunsLoopFreeProgram)
            => exec_pc'.inst_index > exec_pc.inst_index]_vars
    /\ []((RunsLoopFreeProgram /\ step_result \in {NotStepped, StepOk("Next")})
            => exec_pc.inst_index <= LastInstIndex)
    /\ (RunsLoopFreeProgram ~> step_result = StepOk("End"))


\* a run over forward branches out of two blocks has returned End
LoopFreeRunEnded ==
    /\ code = ForwardBrProgram(1, 1).funcs
    /\ step_result = StepOk("End")

====
